---- MODULE Spec2Model ----
(***************************************************************************)
(* A model of scripts/scrape_flashscore.py: the record tokenizer, the name *)
(* reconstructor, the team decoder, the scrape loop and the reconciliation *)
(* (write_if_changed) against the persisted file.                          *)
(*                                                                         *)
(* Python strings that come from feed data are sequences of one-character  *)
(* strings, so that split, endswith, replace and int() are computed rather *)
(* than assumed.  Labels of the static feed tables are atoms.              *)
(***************************************************************************)
EXTENDS Integers, Sequences, FiniteSets, TLC

VARIABLES
    file,           \* OUTPUT_FILE: [present, scraped_at, matches]
    clock,          \* datetime.now(): one tick per write_if_changed call
    call,           \* the last write_if_changed call: its inputs and its outcome
    pc,             \* position of the running script / of the function under test
    args,           \* arguments of the pure function under test
    result,         \* its return value
    all_matches,    \* scrape_all: the entities decoded so far in this run
    attempted_keys, \* scrape_all: the keys tried so far in this run
    idx,            \* scrape_all: the entry of the loop it is in (1-based)
    data,           \* scrape_all: the text the last fetch_feed returned
    fetchlog,       \* how the fetch of each entry of this run ended: [kind, idx, ok]
    tries           \* the fetches made for the entry of this turn of the loop

vars == <<file, clock, call, pc, args, result,
          all_matches, attempted_keys, idx, data, fetchlog, tries>>

\* The locals of scrape_all.
scrapeVars == <<all_matches, attempted_keys, idx, data, fetchlog, tries>>

\* ------------------------------------------------------------------ bounds

\* Calls of write_if_changed in one behaviour.
MaxCalls == 2
\* Entities in one batch handed to write_if_changed.
MaxBatch == 2
\* Tokens in one record handed to parse_fields.
MaxTokens == 3
\* Words in a label and segments in a slug handed to _full_name.
MaxWords == 3
MaxSegments == 3
\* Records after the header in a payload handed to parse_team_feed.
MaxRecords == 3
\* Runs of the script in one behaviour.
MaxRuns == 2
\* Entries of FEEDS the scrape loop goes through.
NumFeeds == 2
\* Records after the header in a payload handed to parse_individual_feed or
\* to parse_start_list.
MaxRows == 3
\* Athlete records in one round of a payload with a heat round and a totals
\* round.
MaxRoundRows == 2

\* ------------------------------------------------------- sequence helpers

Range(s) == {s[i] : i \in 1..Len(s)}

SeqsUpTo(S, n) == UNION {[1..k -> S] : k \in 0..n}

\* F(e), with e evaluated once however often F uses it.
Bind(e, F(_)) == CHOOSE r \in {F(x) : x \in {e}} : TRUE

\* ----------------------------------------------------------- persistence

\* A missing or corrupt OUTPUT_FILE: json.load fails and existing = {}.
NoFile == [present |-> FALSE, scraped_at |-> 0, matches |-> <<>>]

\* existing.get("matches", [])
ExistingMatches(f) == IF f.present THEN f.matches ELSE <<>>

\* ------------------------------------------------------------ _match_key

\* f"{sport}:{event}:{home}-{away}" for a team match, f"{sport}:{event}"
\* otherwise.  sport and event are labels of the feed tables (atoms without
\* ':'), home and away are decoded text (character sequences).
_match_key_no_home(m) ==
    IF m.type = "team"
    THEN <<m.sport, ":", m.event, ":">> \o <<"-">> \o m.away
    ELSE <<m.sport, ":", m.event>>

_match_key_with_type(m) ==
    IF m.type = "team"
    THEN <<m.sport, ":", m.event, ":">> \o m.home \o <<"-">> \o m.away
    ELSE <<m.sport, ":", m.event, ":", m.type>>

_match_key(m) ==
    IF m.type = "team"
    THEN <<m.sport, ":", m.event, ":">> \o m.home \o <<"-">> \o m.away
    ELSE <<m.sport, ":", m.event>>

\* ------------------------------------------------------ write_if_changed

\* A Python dict kept as its insertion-ordered sequence of <<key, value>>.
DictHas(d, k) == \E i \in 1..Len(d) : d[i][1] = k

\* d[k] = v: an existing key keeps its place, a new key goes last.
DictSet(d, k, v) ==
    IF DictHas(d, k)
    THEN [i \in 1..Len(d) |-> IF d[i][1] = k THEN <<k, v>> ELSE d[i]]
    ELSE Append(d, <<k, v>>)

\* list(d.values())
DictValues(d) == [i \in 1..Len(d) |-> d[i][2]]

\* new_keys = {_match_key(m) for m in matches}
NewKeys(matches) == {_match_key(matches[i]) : i \in 1..Len(matches)}

\* The stale test of the first loop.  attempted_keys is a set here; None,
\* the default, is falsy like the empty set.
IsStaleNever(key, attempted, new_keys) == FALSE

IsStaleUnlessRefreshed(key, attempted, new_keys) == key \notin new_keys

IsStale(key, attempted, new_keys) ==
    attempted # {} /\ key \in attempted /\ key \notin new_keys

RECURSIVE SeedMerged(_, _, _, _)
\* for m in existing.get("matches", []): ... merged[key] = m
SeedMerged(prev, i, attempted, new_keys) ==
    IF i = 0 THEN <<>>
    ELSE Bind(SeedMerged(prev, i - 1, attempted, new_keys), LAMBDA d :
            LET key == _match_key(prev[i])
            IN IF IsStale(key, attempted, new_keys) THEN d
               ELSE DictSet(d, key, prev[i]))

RECURSIVE OverlayFirstWins(_, _, _)
OverlayFirstWins(d, matches, i) ==
    IF i = 0 THEN d
    ELSE Bind(OverlayFirstWins(d, matches, i - 1), LAMBDA e :
            LET key == _match_key(matches[i])
            IN IF DictHas(e, key) THEN e ELSE DictSet(e, key, matches[i]))

RECURSIVE Overlay(_, _, _)
\* for m in matches: merged[_match_key(m)] = m
Overlay(d, matches, i) ==
    IF i = 0 THEN d
    ELSE Bind(Overlay(d, matches, i - 1), LAMBDA e :
            DictSet(e, _match_key(matches[i]), matches[i]))

\* merged_list of lines 537-552
MergedList(prev, matches, attempted) ==
    DictValues(Overlay(SeedMerged(prev, Len(prev), attempted, NewKeys(matches)),
                       matches, Len(matches)))

\* The early return of lines 532-534.
KeepsExistingNever(matches, prev) == FALSE

KeepsExisting(matches, prev) == matches = <<>> /\ prev # <<>>

\* The comparison of line 554.
NoChangesNever(merged_list, prev) == FALSE

NoChanges(merged_list, prev) == merged_list = prev

\* write_if_changed(matches, attempted_keys): the file it leaves, its return
\* value, and merged_list (the previous list when the early return is taken).
WriteIfChanged(f, matches, attempted, now) ==
    LET prev == ExistingMatches(f)
    IN IF KeepsExisting(matches, prev)
       THEN [file |-> f, ret |-> FALSE, merged_list |-> prev, early |-> TRUE]
       ELSE Bind(MergedList(prev, matches, attempted), LAMBDA merged_list :
               IF NoChanges(merged_list, prev)
               THEN [file |-> f, ret |-> FALSE, merged_list |-> merged_list,
                     early |-> FALSE]
               ELSE [file |-> [present |-> TRUE, scraped_at |-> now,
                               matches |-> merged_list],
                     ret |-> TRUE, merged_list |-> merged_list, early |-> FALSE])

\* ------------------------------------------------------------ characters

\* The separators of the feed format.  A character that is not ASCII is
\* written by its code point.
REC_SEP == "~"
\* "¬", between the fields of a record
FIELD_SEP == "U+00AC"
\* "÷", between a key and its value
KV_SEP == "U+00F7"

\* c in s
Contains(s, c) == \E i \in 1..Len(s) : s[i] = c

\* s.find(c) + 1 for a c that occurs in s
IndexOf(s, c) == CHOOSE i \in 1..Len(s) : s[i] = c /\ \A j \in 1..(i - 1) : s[j] # c

RECURSIVE Split(_, _)
\* s.split(c): always at least one segment
Split(s, c) ==
    IF ~Contains(s, c) THEN <<s>>
    ELSE Bind(IndexOf(s, c), LAMBDA i :
            <<SubSeq(s, 1, i - 1)>>
            \o Bind(SubSeq(s, i + 1, Len(s)), LAMBDA rest : Split(rest, c)))

\* s.split(c, 1) for a c that occurs in s
Split1(s, c) ==
    Bind(IndexOf(s, c), LAMBDA i : <<SubSeq(s, 1, i - 1), SubSeq(s, i + 1, Len(s))>>)

RECURSIVE Join(_, _)
\* sep.join(parts), sep a sequence of characters
Join(parts, sep) ==
    IF Len(parts) = 0 THEN <<>>
    ELSE IF Len(parts) = 1 THEN parts[1]
    ELSE parts[1] \o sep \o Bind(Tail(parts), LAMBDA rest : Join(rest, sep))

\* d.get(k, default)
DictGet(d, k, default) ==
    IF DictHas(d, k)
    THEN LET i == CHOOSE j \in 1..Len(d) : d[j][1] = k IN d[i][2]
    ELSE default

\* ---------------------------------------------------------- parse_fields

RAA == <<"R", "A", "A">>
RAB == <<"R", "A", "B">>

NoFields == [d |-> <<>>, raa |-> <<>>, rab |-> <<>>]

\* A token without the separator is kept under its own text.
ParseFieldKeepsMalformed(acc, field) ==
    IF ~Contains(field, KV_SEP) THEN [acc EXCEPT !.d = DictSet(acc.d, field, <<>>)]
    ELSE Bind(Split1(field, KV_SEP), LAMBDA kv :
            IF kv[1] = RAA THEN [acc EXCEPT !.raa = Append(acc.raa, kv[2])]
            ELSE IF kv[1] = RAB THEN [acc EXCEPT !.rab = Append(acc.rab, kv[2])]
            ELSE [acc EXCEPT !.d = DictSet(acc.d, kv[1], kv[2])])

\* One turn of the loop of lines 193-202.
ParseField(acc, field) ==
    IF ~Contains(field, KV_SEP) THEN acc
    ELSE Bind(Split1(field, KV_SEP), LAMBDA kv :
            IF kv[1] = RAA THEN [acc EXCEPT !.raa = Append(acc.raa, kv[2])]
            ELSE IF kv[1] = RAB THEN [acc EXCEPT !.rab = Append(acc.rab, kv[2])]
            ELSE [acc EXCEPT !.d = DictSet(acc.d, kv[1], kv[2])])

RECURSIVE ParseFieldsLoop(_, _)
ParseFieldsLoop(fields, i) ==
    IF i = 0 THEN NoFields
    ELSE Bind(ParseFieldsLoop(fields, i - 1), LAMBDA acc : ParseField(acc, fields[i]))

\* parse_fields(record) -> (d, raa, rab)
parse_fields(record) ==
    Bind(Split(record, FIELD_SEP), LAMBDA fields : ParseFieldsLoop(fields, Len(fields)))

\* ------------------------------------------------------ _fix_diacritics

\* The letters with diacritics, by code point: o, a, u with diaeresis, lower
\* case then upper case.
Ouml == "U+00F6"
Auml == "U+00E4"
Uuml == "U+00FC"
OUML == "U+00D6"
AUML == "U+00C4"
UUML == "U+00DC"

\* The cased letters the model's texts are written in: <<lower, upper>>.
CasedLetters ==
    { <<"a", "A">>, <<"b", "B">>, <<"e", "E">>, <<"f", "F">>, <<"h", "H">>,
      <<"j", "J">>, <<"k", "K">>, <<"l", "L">>, <<"n", "N">>, <<"o", "O">>,
      <<"s", "S">>, <<"t", "T">>, <<"u", "U">>,
      <<Ouml, OUML>>, <<Auml, AUML>>, <<Uuml, UUML>> }

IsCased(c) == \E p \in CasedLetters : c = p[1] \/ c = p[2]
\* c.upper() and c.lower(); a character without case is left as it is
Upper(c) == IF \E p \in CasedLetters : p[1] = c
            THEN (CHOOSE p \in CasedLetters : p[1] = c)[2] ELSE c
Lower(c) == IF \E p \in CasedLetters : p[2] = c
            THEN (CHOOSE p \in CasedLetters : p[2] = c)[1] ELSE c

RECURSIVE Replace2From(_, _, _, _, _)
\* The replacement in s from the character i on.
Replace2From(s, i, a, b, c) ==
    IF i > Len(s) THEN <<>>
    ELSE IF i < Len(s) /\ s[i] = a /\ s[i + 1] = b
         THEN <<c>> \o Replace2From(s, i + 2, a, b, c)
         ELSE <<s[i]>> \o Replace2From(s, i + 1, a, b, c)

\* s.replace(a + b, c): the occurrences of the two characters a b, left to
\* right and not overlapping, each become the character c
Replace2(s, a, b, c) == Replace2From(s, 1, a, b, c)

\* One turn of the loop of lines 218-220: ascii_form, then its capitalize().
FixOne(s, a, b, c) ==
    Bind(Replace2(s, a, b, c), LAMBDA t : Replace2(t, Upper(a), b, Upper(c)))

FixDiacriticsLowerOnly(s) ==
    Replace2(Replace2(Replace2(s, "o", "e", Ouml), "a", "e", Auml), "u", "e", Uuml)

_fix_diacritics(s) ==
    Bind(FixOne(s, "o", "e", Ouml), LAMBDA s1 :
    Bind(FixOne(s1, "a", "e", Auml), LAMBDA s2 : FixOne(s2, "u", "e", Uuml)))

RECURSIVE TitleFrom(_, _)
\* The characters of s.title() from the character i on.
TitleFrom(s, i) ==
    IF i > Len(s) THEN <<>>
    ELSE <<IF i > 1 /\ IsCased(s[i - 1]) THEN Lower(s[i]) ELSE Upper(s[i])>>
         \o TitleFrom(s, i + 1)

\* s.title(): a cased letter is upper case after a character without case
\* (or at the start) and lower case after a cased letter
Title(s) == TitleFrom(s, 1)

\* ------------------------------------------------------------- _full_name

\* s.split(): the words between runs of spaces
SplitWs(s) == SelectSeq(Split(s, " "), LAMBDA w : w # <<>>)

\* w.endswith(".")
EndsWithDot(w) == Len(w) > 0 /\ w[Len(w)] = "."

\* sum(1 for w in ae.split() if len(w) <= 3 and w.endswith("."))
Initials(ae) ==
    Bind(SplitWs(ae), LAMBDA ws :
        Cardinality({i \in 1..Len(ws) : Len(ws[i]) <= 3 /\ EndsWithDot(ws[i])}))

Min(a, b) == IF a <= b THEN a ELSE b

NGivenUncapped(initials, nparts) == initials

\* n_given = min(initials, len(parts) - 1)
NGiven(initials, nparts) == Min(initials, nparts - 1)

\* " ".join(_fix_diacritics(p).title() for p in parts)
TitledJoin(parts) ==
    Bind([i \in 1..Len(parts) |->
            Bind(_fix_diacritics(parts[i]), LAMBDA p : Title(p))],
         LAMBDA titled : Join(titled, <<" ">>))

_full_name(ae, wu) ==
    IF wu = <<>> \/ ae = <<>>
    THEN (IF ae # <<>> THEN _fix_diacritics(ae) ELSE ae)
    ELSE Bind(Split(wu, "-"), LAMBDA parts :
            IF Len(parts) < 2 THEN _fix_diacritics(ae)
            ELSE Bind(Initials(ae), LAMBDA initials :
                    IF initials = 0 THEN _fix_diacritics(ae)
                    ELSE LET n_given == NGiven(initials, Len(parts))
                             surname_parts == SubSeq(parts, 1, Len(parts) - n_given)
                             given_parts == SubSeq(parts, Len(parts) - n_given + 1, Len(parts))
                         IN Bind(TitledJoin(surname_parts), LAMBDA surname :
                            Bind(TitledJoin(given_parts), LAMBDA given :
                                IF given # <<>> THEN given \o <<" ">> \o surname
                                ELSE surname))))

\* ------------------------------------------------------------------ _int

\* An optional value: None is <<>>, the value v is <<v>>.
None == <<>>
Some(v) == <<v>>

Digits == <<"0", "1", "2", "3", "4", "5", "6", "7", "8", "9">>
IsDigit(c) == \E i \in 1..10 : Digits[i] = c
DigitValue(c) == (CHOOSE i \in 1..10 : Digits[i] = c) - 1

RECURSIVE DecimalUpTo(_, _)
\* The number the first n digits of s write.
DecimalUpTo(s, n) ==
    IF n = 0 THEN 0 ELSE 10 * DecimalUpTo(s, n - 1) + DigitValue(s[n])

DecimalValue(s) == DecimalUpTo(s, Len(s))

RECURSIVE Strip(_)
\* s.strip(), of spaces
Strip(s) ==
    IF Len(s) > 0 /\ s[1] = " " THEN Bind(Tail(s), LAMBDA t : Strip(t))
    ELSE IF Len(s) > 0 /\ s[Len(s)] = " "
         THEN Bind(SubSeq(s, 1, Len(s) - 1), LAMBDA t : Strip(t))
    ELSE s

\* _int(s): int(s), or None when int raises.  int takes spaces around the
\* number and a sign before it (and '_' between digits, which no text of
\* the model holds).
_int(s) ==
    Bind(Strip(s), LAMBDA t :
        LET signed == Len(t) > 0 /\ t[1] \in {"+", "-"}
        IN Bind(IF signed THEN Tail(t) ELSE t, LAMBDA body :
              IF Len(body) > 0 /\ \A i \in 1..Len(body) : IsDigit(body[i])
              THEN Some(IF signed /\ t[1] = "-" THEN 0 - DecimalValue(body)
                        ELSE DecimalValue(body))
              ELSE None))

\* ------------------------------------------------------- parse_team_feed

AA == <<"A", "A">>
AB == <<"A", "B">>
AD == <<"A", "D">>
AE == <<"A", "E">>
AF == <<"A", "F">>
AG == <<"A", "G">>
AH == <<"A", "H">>
CX == <<"C", "X">>
FK == <<"F", "K">>
BA == <<"B", "A">>
BB == <<"B", "B">>
BC == <<"B", "C">>
BD == <<"B", "D">>
BE == <<"B", "E">>
BF == <<"B", "F">>

TEAM_FEEDS ==
    << [sport |-> "Ishockey", event |-> "Herrar"],
       [sport |-> "Ishockey", event |-> "Damer"] >>

CleanTeamKeepsSuffix(name) == name

\* _clean_team(name): without a final " D"
_clean_team(name) ==
    IF Len(name) >= 2 /\ name[Len(name) - 1] = " " /\ name[Len(name)] = "D"
    THEN SubSeq(name, 1, Len(name) - 2)
    ELSE name

TeamStatusLiveIsScheduled(status_code) ==
    IF status_code = <<"3">> THEN "finished" ELSE "scheduled"

\* "finished" if status_code == "3" else ("live" if status_code == "2" else "scheduled")
TeamStatus(status_code) ==
    IF status_code = <<"3">> THEN "finished"
    ELSE IF status_code = <<"2">> THEN "live" ELSE "scheduled"

\* h or '0'
OrZero(x) == IF x # <<>> THEN x ELSE <<"0">>

\* The periods string of lines 280-286 (and 164-169, 182).
Periods(d) ==
    LET pair(hk, ak) ==
            LET h == DictGet(d, hk, <<>>)
                a == DictGet(d, ak, <<>>)
            IN IF h # <<>> \/ a # <<>> THEN <<OrZero(h) \o <<"-">> \o OrZero(a)>>
               ELSE <<>>
    IN Join(pair(BA, BB) \o pair(BC, BD) \o pair(BE, BF), <<",", " ">>)

\* The match dict of lines 262-286, before the away team of the next record.
TeamMatch(d, entry) ==
    [type |-> "team",
     sport |-> entry.sport,
     event |-> entry.event,
     event_id |-> DictGet(d, AA, <<>>),
     home |-> _clean_team(DictGet(d, CX, DictGet(d, AE, <<>>))),
     away |-> _clean_team(DictGet(d, AF, DictGet(d, FK, <<>>))),
     home_score |-> _int(DictGet(d, AG, <<>>)),
     away_score |-> _int(DictGet(d, AH, <<>>)),
     status |-> TeamStatus(DictGet(d, AB, <<>>)),
     timestamp |-> _int(DictGet(d, AD, <<>>)),
     periods |-> Periods(d)]

\* Lines 289-293: the away team of the next record; the index moves on even
\* when there is no next record.
AwayFromNext(match, records, i) ==
    IF match.away # <<>> THEN [match |-> match, i |-> i]
    ELSE IF i + 1 <= Len(records)
         THEN LET d2 == parse_fields(records[i + 1]).d
              IN [match |-> [match EXCEPT
                                !.away = _clean_team(DictGet(d2, CX, DictGet(d2, AE, <<>>)))],
                  i |-> i + 1]
         ELSE [match |-> match, i |-> i + 1]

EmitsAll(match) == TRUE

\* Line 295
Emits(match) == match.status = "finished"

RECURSIVE TeamLoop(_, _, _, _)
\* The while loop of lines 252-298 from index i (1-based) on.  seen lists
\* every match dict the loop built, emitted or not.
TeamLoop(records, i, entry, acc) ==
    IF i > Len(records) THEN acc
    ELSE Bind(parse_fields(records[i]).d, LAMBDA d :
            IF ~DictHas(d, AA) THEN TeamLoop(records, i + 1, entry, acc)
            ELSE Bind(AwayFromNext(TeamMatch(d, entry), records, i), LAMBDA r :
                    Bind([matches |-> IF Emits(r.match)
                                      THEN Append(acc.matches, r.match)
                                      ELSE acc.matches,
                          seen |-> Append(acc.seen, r.match)],
                         LAMBDA next : TeamLoop(records, r.i + 1, entry, next))))

\* parse_team_feed(data, entry): i = 2 skips the two header records.
parse_team_feed(text, entry) ==
    Bind(Split(text, REC_SEP), LAMBDA records :
        TeamLoop(records, 3, entry, [matches |-> <<>>, seen |-> <<>>]))

\* ------------------------------------------------- parse_individual_feed

ZAE == <<"Z", "A", "E">>
WU == <<"W", "U">>
FU == <<"F", "U">>
Totalt == <<"T", "o", "t", "a", "l", "t">>

\* Minimum timestamp for OS 2026 matches
MIN_TIMESTAMP == 1769904000

SWE_COUNTRIES == { <<"S", "v", "e", "r", "i", "g", "e">>, <<"s", "w", "e", "d", "e", "n">> }

\* The position of an athlete without one.
NO_POS == 999

RECURSIVE ZipDict(_, _, _)
\* dict(zip(raa, rab)), from the first i pairs
ZipDict(raa, rab, i) ==
    IF i = 0 THEN <<>>
    ELSE Bind(ZipDict(raa, rab, i - 1), LAMBDA ra : DictSet(ra, raa[i], rab[i]))

\* ra = dict(zip(raa, rab)); ra.get(k) is None or the value
SideValues(raa, rab) == ZipDict(raa, rab, Min(Len(raa), Len(rab)))

\* A value that is truthy: a text that is not empty.
Truthy(v) == v # <<>>

\* The optional fields of lines 349-367, each set when its value is truthy.
Metric(ra, k, name) ==
    IF Truthy(DictGet(ra, k, <<>>)) THEN name :> DictGet(ra, k, <<>>) ELSE <<>>

Penalties(ra) ==
    LET pen_str == IF Truthy(DictGet(ra, <<"9">>, <<>>))
                   THEN DictGet(ra, <<"9">>, <<>>)
                   ELSE DictGet(ra, <<"1", "0">>, <<>>)
    IN IF Truthy(pen_str) THEN "penalties" :> _int(pen_str) ELSE <<>>

PositionOrNone(pos) == _int(pos)

\* _int(pos) if pos else 999
Position(pos) == IF Truthy(pos) THEN _int(pos) ELSE Some(NO_POS)

\* The athlete dict of lines 341-367.  A text that is not given is <<>>.
Athlete(d, ra) ==
    [pos |-> Position(DictGet(ra, <<"7">>, <<>>)),
     name |-> _full_name(DictGet(d, AE, <<>>), DictGet(d, WU, <<>>)),
     country |-> DictGet(d, FU, <<>>),
     _wu |-> DictGet(d, WU, DictGet(d, AE, <<>>))]
    @@ Metric(ra, <<"5">>, "time")
    @@ Metric(ra, <<"6">>, "diff")
    @@ Metric(ra, <<"2">>, "dist")
    @@ Metric(ra, <<"3">>, "dist_pts")
    @@ Metric(ra, <<"4">>, "style_pts")
    @@ Metric(ra, <<"1", "2">>, "best_dist")
    @@ Metric(ra, <<"1", "3">>, "best_pts")
    @@ Penalties(ra)

\* The state of the scan before the first record.
ScanStart ==
    [athletes |-> <<>>, has_finished |-> FALSE, event_timestamp |-> None,
     current_round |-> None, heat_times |-> <<>>]

\* if ad and (event_timestamp is None or ad > event_timestamp)
NewTimestamp(ad, event_timestamp) ==
    IF ad # None /\ ad[1] # 0 /\ (event_timestamp = None \/ ad[1] > event_timestamp[1])
    THEN ad ELSE event_timestamp

\* current_round is not None and current_round != "Totalt"
InHeatRoundNever(current_round) == FALSE

InHeatRound(current_round) == current_round # None /\ current_round[1] # Totalt

\* One turn of the loop of lines 313-368.
ScanRecord(st, rec) ==
    Bind(parse_fields(rec), LAMBDA f :
    Bind(SideValues(f.raa, f.rab), LAMBDA ra :
    LET d == f.d
        ts == NewTimestamp(_int(DictGet(d, AD, <<>>)), st.event_timestamp)
        wu == DictGet(d, WU, DictGet(d, AE, <<>>))
    IN IF DictHas(d, ZAE) THEN [st EXCEPT !.current_round = Some(DictGet(d, ZAE, <<>>))]
       ELSE IF ~DictHas(d, AE) THEN st
       ELSE IF InHeatRound(st.current_round)
            THEN [st EXCEPT
                    !.event_timestamp = ts,
                    !.heat_times =
                        IF Truthy(DictGet(ra, <<"5">>, <<>>)) /\ ~DictHas(st.heat_times, wu)
                        THEN DictSet(st.heat_times, wu, DictGet(ra, <<"5">>, <<>>))
                        ELSE st.heat_times]
            ELSE [st EXCEPT
                    !.event_timestamp = ts,
                    !.has_finished = st.has_finished \/ DictGet(d, AB, <<>>) = <<"3">>,
                    !.athletes = Append(st.athletes, Athlete(d, ra))]))

RECURSIVE Scan(_, _)
\* for rec in records[1:], up to record i (1-based)
Scan(records, i) ==
    IF i <= 1 THEN ScanStart
    ELSE Bind(Scan(records, i - 1), LAMBDA st : ScanRecord(st, records[i]))

\* Lines 371-374: a time of a heat round for an athlete without one.
FillTime(a, heat_times) ==
    IF "time" \notin DOMAIN a /\ DictHas(heat_times, a._wu)
    THEN a @@ ("time" :> DictGet(heat_times, a._wu, <<>>))
    ELSE a

RECURSIVE InsertByPos(_, _)
\* a into the sorted list s, after every element that is not greater
InsertByPos(s, a) ==
    IF Len(s) = 0 THEN <<a>>
    ELSE IF s[Len(s)].pos[1] <= a.pos[1] THEN Append(s, a)
    ELSE Append(Bind(SubSeq(s, 1, Len(s) - 1), LAMBDA front : InsertByPos(front, a)),
                s[Len(s)])

RECURSIVE SortByPos(_)
\* list.sort(key=lambda x: x["pos"]): stable, on integer positions
SortByPos(s) ==
    IF Len(s) = 0 THEN <<>>
    ELSE Bind(SubSeq(s, 1, Len(s) - 1), LAMBDA front :
            Bind(SortByPos(front), LAMBDA sorted : InsertByPos(sorted, s[Len(s)])))

RowKeyNameOnly(a) == a.name

\* key = a["name"] + a["country"]
RowKey(a) == a.name \o a.country

RECURSIVE Dedup(_, _)
\* Lines 390-396: the first row of each key, of the first i rows
Dedup(rows, i) ==
    IF i = 0 THEN <<>>
    ELSE Bind(Dedup(rows, i - 1), LAMBDA kept :
            IF \E j \in 1..Len(kept) : RowKey(kept[j]) = RowKey(rows[i])
            THEN kept ELSE Append(kept, rows[i]))

\* a.pop("_wu", None)
WithoutWu(a) == [k \in DOMAIN a \ {"_wu"} |-> a[k]]

IsSwe(a) == a.country \in SWE_COUNTRIES

PodiumTopTwo(a) == a.pos[1] <= 2

IsPodium(a) == a.pos[1] <= 3

\* Lines 385-397
Filtered(athletes) ==
    Bind(SortByPos(athletes), LAMBDA sorted :
        LET swe == SelectSeq(sorted, IsSwe)
            podium == SelectSeq(sorted, IsPodium)
        IN Bind(podium \o swe, LAMBDA rows :
           Bind(Dedup(rows, Len(rows)), LAMBDA kept :
           Bind(SortByPos(kept), LAMBDA filtered :
              [i \in 1..Len(filtered) |-> WithoutWu(filtered[i])]))))

NoEntity == [kind |-> "none"]
\* A TypeError leaves the decoder: a position that is None is compared.
Raises == [kind |-> "raise"]

IsOldNever(event_timestamp) == FALSE

\* if event_timestamp and event_timestamp < MIN_TIMESTAMP
IsOld(event_timestamp) ==
    event_timestamp # None /\ event_timestamp[1] # 0 /\ event_timestamp[1] < MIN_TIMESTAMP

\* parse_individual_feed(data, entry)
parse_individual_feed(text, entry) ==
    Bind(Split(text, REC_SEP), LAMBDA records :
    Bind(Scan(records, Len(records)), LAMBDA st :
    Bind([i \in 1..Len(st.athletes) |-> FillTime(st.athletes[i], st.heat_times)],
         LAMBDA athletes :
       IF ~st.has_finished \/ athletes = <<>> THEN NoEntity
       ELSE IF IsOld(st.event_timestamp) THEN NoEntity
       ELSE IF \E i \in 1..Len(athletes) : athletes[i].pos = None THEN Raises
       ELSE Bind(Filtered(athletes), LAMBDA filtered :
               IF filtered = <<>> THEN NoEntity
               ELSE [kind |-> "entity",
                     entity |-> [type |-> "individual",
                                 sport |-> entry.sport,
                                 event |-> entry.event,
                                 status |-> "finished",
                                 timestamp |-> st.event_timestamp,
                                 results |-> filtered]]))))

\* ------------------------------------------------------ parse_start_list

\* One turn of the loop of lines 423-446.
StartRecord(st, rec) ==
    Bind(parse_fields(rec), LAMBDA f :
    Bind(SideValues(f.raa, f.rab), LAMBDA ra :
    LET d == f.d
        bib == DictGet(ra, <<"7">>, <<>>)
    IN IF DictHas(d, ZAE) THEN [st EXCEPT !.current_round = Some(DictGet(d, ZAE, <<>>))]
       ELSE IF ~DictHas(d, AE) THEN st
       ELSE IF InHeatRound(st.current_round) THEN st
       ELSE [st EXCEPT
               !.has_scheduled = st.has_scheduled \/ DictGet(d, AB, <<>>) = <<"1">>,
               !.athletes = Append(st.athletes,
                   [name |-> _full_name(DictGet(d, AE, <<>>), DictGet(d, WU, <<>>)),
                    country |-> DictGet(d, FU, <<>>),
                    bib |-> IF Truthy(bib) THEN _int(bib) ELSE None])]))

RECURSIVE StartScan(_, _)
StartScan(records, i) ==
    IF i <= 1 THEN [athletes |-> <<>>, has_scheduled |-> FALSE, current_round |-> None]
    ELSE Bind(StartScan(records, i - 1), LAMBDA st : StartRecord(st, records[i]))

\* parse_start_list(data, entry)
parse_start_list(text, entry) ==
    Bind(Split(text, REC_SEP), LAMBDA records :
    Bind(StartScan(records, Len(records)), LAMBDA st :
    Bind(SelectSeq(st.athletes, IsSwe), LAMBDA swe :
       IF ~st.has_scheduled \/ st.athletes = <<>> THEN NoEntity
       ELSE [kind |-> "entity",
             entity |-> [type |-> "startlist",
                         sport |-> entry.sport,
                         event |-> entry.event,
                         total |-> Len(st.athletes),
                         swe_athletes |-> [i \in 1..Len(swe) |->
                             [name |-> swe[i].name, country |-> swe[i].country]],
                         athletes |-> st.athletes]])))

\* ------------------------------------------------ fetch_team_results_html

RECURSIVE HtmlFields(_, _)
\* Lines 147-152: every field of the record in one dict
HtmlFields(tokens, i) ==
    IF i = 0 THEN <<>>
    ELSE Bind(HtmlFields(tokens, i - 1), LAMBDA fields :
            IF ~Contains(tokens[i], KV_SEP) THEN fields
            ELSE Bind(Split1(tokens[i], KV_SEP), LAMBDA kv :
                    DictSet(fields, kv[1], kv[2])))

\* The match of one record of the results data (lines 154-183), or nothing.
HtmlMatch(rec, entry) ==
    Bind(Split(rec, FIELD_SEP), LAMBDA tokens :
    Bind(HtmlFields(tokens, Len(tokens)), LAMBDA fields :
    Bind(_int(DictGet(fields, AD, <<>>)), LAMBDA timestamp :
       IF ~DictHas(fields, AA) \/ DictGet(fields, AB, <<>>) # <<"3">> THEN <<>>
       ELSE IF timestamp = None \/ timestamp[1] = 0 \/ timestamp[1] < MIN_TIMESTAMP
            THEN <<>>
       ELSE << [type |-> "team",
                sport |-> entry.sport,
                event |-> entry.event,
                event_id |-> DictGet(fields, AA, <<>>),
                home |-> _clean_team(DictGet(fields, CX, DictGet(fields, AE, <<>>))),
                away |-> _clean_team(DictGet(fields, AF, DictGet(fields, FK, <<>>))),
                home_score |-> _int(DictGet(fields, AG, <<>>)),
                away_score |-> _int(DictGet(fields, AH, <<>>)),
                status |-> "finished",
                timestamp |-> timestamp[1],
                periods |-> Periods(fields)] >>)))

RECURSIVE HtmlMatches(_, _, _)
\* for rec in records (lines 146-183), the first i records
HtmlMatches(records, i, entry) ==
    IF i = 0 THEN <<>>
    ELSE HtmlMatches(records, i - 1, entry) \o HtmlMatch(records[i], entry)

\* What fetch_team_results_html returns for a page: page.ok is FALSE when
\* the request fails or the page holds no results data, page.data is the
\* results data otherwise.
fetch_team_results_html(page, entry) ==
    IF ~page.ok THEN <<>>
    ELSE Bind(Split(page.data, REC_SEP), LAMBDA records :
            HtmlMatches(records, Len(records), entry))

\* ------------------------------------------------------------ scrape_all

\* Four entries of FEEDS (the table has 41, all of type individual).
FEEDS ==
    << [sport |-> "Alpint", event |-> "Super-G herrar", type |-> "individual"],
       [sport |-> "Alpint", event |-> "Super-G damer", type |-> "individual"],
       [sport |-> "Alpint", event |-> "Storslalom herrar", type |-> "individual"],
       [sport |-> "Alpint", event |-> "Storslalom damer", type |-> "individual"] >>

\* key = f"{entry['sport']}:{entry['event']}"
FeedKey(entry) == <<entry.sport, ":", entry.event>>

AttemptNothing(attempted, entry) == attempted

\* attempted_keys.add(key)
Attempt(attempted, entry) == attempted \cup {FeedKey(entry)}

DecodedBoth(text, entry) ==
    Bind(parse_individual_feed(text, entry), LAMBDA res :
    Bind(parse_start_list(text, entry), LAMBDA sl :
       IF res.kind = "raise" THEN [raised |-> TRUE, added |-> <<>>]
       ELSE [raised |-> FALSE,
             added |-> (IF res.kind = "entity" THEN <<res.entity>> ELSE <<>>)
                       \o (IF sl.kind = "entity" THEN <<sl.entity>> ELSE <<>>)]))

\* Lines 498-510: the entities one payload adds to the batch, or the
\* TypeError that leaves parse_individual_feed.
Decoded(text, entry) ==
    Bind(parse_individual_feed(text, entry), LAMBDA res :
       IF res.kind = "raise" THEN [raised |-> TRUE, added |-> <<>>]
       ELSE IF res.kind = "entity" THEN [raised |-> FALSE, added |-> <<res.entity>>]
       ELSE Bind(parse_start_list(text, entry), LAMBDA sl :
               IF sl.kind = "entity" THEN [raised |-> FALSE, added |-> <<sl.entity>>]
               ELSE [raised |-> FALSE, added |-> <<>>]))

\* --------------------------------------------- reconciliation on its own

\* Entities handed to write_if_changed: two results of one event (A, A')
\* and a team match (B).
EntA == [type |-> "individual", sport |-> "Alpint", event |-> "Slalom herrar",
         status |-> "finished", timestamp |-> 1, results |-> <<1>>]
EntA2 == [type |-> "individual", sport |-> "Alpint", event |-> "Slalom herrar",
          status |-> "finished", timestamp |-> 1, results |-> <<1, 2>>]
EntB == [type |-> "team", sport |-> "Ishockey", event |-> "Herrar",
         home |-> <<"A">>, away |-> <<"B">>, status |-> "finished"]

MergeEntities == {EntA, EntA2, EntB}
MergeKeys == {_match_key(m) : m \in MergeEntities}

NoCall == [n |-> 0, before |-> NoFile, matches |-> <<>>, attempted_keys |-> {},
           ret |-> FALSE, merged_list |-> <<>>, early |-> FALSE]

InitMerge ==
    /\ file = NoFile
    /\ clock = 0
    /\ call = NoCall
    /\ pc = "merge"
    /\ args = <<>>
    /\ result = <<>>
    /\ all_matches = <<>>
    /\ attempted_keys = {}
    /\ idx = 0
    /\ data = <<>>
    /\ fetchlog = <<>>
    /\ tries = 0

\* One call write_if_changed(matches, attempted_keys) on the file as it is.
WriteCall ==
    /\ pc = "merge"
    /\ clock < MaxCalls
    /\ \E matches \in SeqsUpTo(MergeEntities, MaxBatch), attempted \in SUBSET MergeKeys :
          \E r \in {WriteIfChanged(file, matches, attempted, clock + 1)} :
             /\ file' = r.file
             /\ call' = [n |-> clock + 1, before |-> file, matches |-> matches,
                         attempted_keys |-> attempted, ret |-> r.ret,
                         merged_list |-> r.merged_list, early |-> r.early]
    /\ clock' = clock + 1
    /\ UNCHANGED <<pc, args, result>>
    /\ UNCHANGED scrapeVars

NextMerge == WriteCall

SpecMerge == InitMerge /\ [][NextMerge]_vars

\* What the last call read and was given.
Prev == ExistingMatches(call.before)
Called == call.n > 0
KeysOf(list) == {_match_key(list[i]) : i \in 1..Len(list)}

\* C1: after write_if_changed with a non-empty batch, no previous entry whose
\* key was attempted and is the key of no batch entity is left in the file;
\* previous [A, B], attempted {A, B}, batch [A] leaves [A] and returns True.
C1_Retire ==
    (Called /\ call.matches # <<>>) =>
        /\ \A i \in 1..Len(Prev) :
              LET key == _match_key(Prev[i])
              IN (key \in call.attempted_keys /\ key \notin KeysOf(call.matches))
                    => key \notin KeysOf(ExistingMatches(file))
        /\ (/\ Prev = <<EntA, EntB>>
            /\ call.attempted_keys = {_match_key(EntA), _match_key(EntB)}
            /\ call.matches = <<EntA>>)
              => (ExistingMatches(file) = <<EntA>> /\ call.ret = TRUE)

C1_Witness ==
    /\ Called
    /\ Prev = <<EntA, EntB>>
    /\ call.attempted_keys = {_match_key(EntA), _match_key(EntB)}
    /\ call.matches = <<EntA>>
    /\ file.matches = <<EntA>>

\* C2: an empty batch against a non-empty file leaves the file as it was,
\* scraped_at included, and returns False, whatever attempted_keys holds.
C2_TotalOutage ==
    (Called /\ call.matches = <<>> /\ Prev # <<>>) =>
        (file = call.before /\ call.ret = FALSE)

C2_Witness ==
    /\ Called
    /\ call.matches = <<>>
    /\ Prev = <<EntA, EntB>>
    /\ call.attempted_keys = {_match_key(EntA), _match_key(EntB)}
    /\ file = call.before

\* C3: with a non-empty batch, every previous entry whose key is neither
\* attempted nor the key of a batch entity is still in the file, unmodified;
\* previous [A, B], attempted {A}, batch [A'] leaves [A', B].
C3_KeepNeverAttempted ==
    (Called /\ call.matches # <<>>) =>
        /\ \A i \in 1..Len(Prev) :
              LET key == _match_key(Prev[i])
              IN (key \notin call.attempted_keys /\ key \notin KeysOf(call.matches))
                    => Prev[i] \in Range(ExistingMatches(file))
        /\ (/\ Prev = <<EntA, EntB>>
            /\ call.attempted_keys = {_match_key(EntA)}
            /\ call.matches = <<EntA2>>)
              => ExistingMatches(file) = <<EntA2, EntB>>

C3_Witness ==
    /\ Called
    /\ Prev = <<EntA, EntB>>
    /\ call.attempted_keys = {_match_key(EntA)}
    /\ call.matches = <<EntA2>>
    /\ EntB \in Range(file.matches)

\* C4: with a non-empty batch, for every key of the batch the file holds
\* exactly one entity of that key: the last batch entity of that key.
C4_NewDataWins ==
    (Called /\ call.matches # <<>>) =>
        \A j \in 1..Len(call.matches) :
            LET key == _match_key(call.matches[j])
                last == CHOOSE k \in 1..Len(call.matches) :
                            /\ _match_key(call.matches[k]) = key
                            /\ \A l \in (k + 1)..Len(call.matches) :
                                  _match_key(call.matches[l]) # key
                now == ExistingMatches(file)
            IN /\ Cardinality({i \in 1..Len(now) : _match_key(now[i]) = key}) = 1
               /\ \A i \in 1..Len(now) :
                     _match_key(now[i]) = key => now[i] = call.matches[last]

C4_Witness ==
    /\ Called
    /\ EntA \in Range(Prev)
    /\ call.matches = <<EntA, EntA2>>
    /\ EntA2 \in Range(file.matches)
    /\ EntA \notin Range(file.matches)

\* C6: write_if_changed writes (and returns True) exactly when the merged
\* entities differ from the previous ones as a set of values; otherwise the
\* file, scraped_at included, is untouched.  On the early return of the
\* empty-batch case nothing is merged and nothing is written.
C6_Verdict ==
    Called =>
        /\ call.early => (call.ret = FALSE /\ file = call.before)
        /\ ~call.early =>
              /\ call.ret <=> (Range(call.merged_list) # Range(Prev))
              /\ call.ret => file = [present |-> TRUE, scraped_at |-> call.n,
                                     matches |-> call.merged_list]
              /\ ~call.ret => file = call.before

C6_Witness ==
    /\ Called
    /\ ~call.early
    /\ call.ret = FALSE
    /\ Len(Prev) = 2
    /\ call.matches # <<>>
    /\ file.scraped_at < call.n

\* ------------------------------------------------- parse_fields on its own

\* Tokens of a record: scalar fields (one key twice, an empty key, a value
\* that holds the separator), side-list fields and malformed tokens.
TokenPool ==
    { <<"A", "A", KV_SEP, "1">>,
      <<"A", "A", KV_SEP, "2">>,
      <<"A", "B", KV_SEP, "3">>,
      <<KV_SEP>>,
      <<"A", KV_SEP, KV_SEP>>,
      RAA \o <<KV_SEP, "7">>,
      RAB \o <<KV_SEP, "1">>,
      <<"A", "A">>,
      <<>> }

InitFields ==
    /\ file = NoFile
    /\ clock = 0
    /\ call = NoCall
    /\ pc = "call"
    /\ args \in {[tokens |-> t] : t \in SeqsUpTo(TokenPool, MaxTokens) \ {<<>>}}
    /\ result = NoFields
    /\ all_matches = <<>>
    /\ attempted_keys = {}
    /\ idx = 0
    /\ data = <<>>
    /\ fetchlog = <<>>
    /\ tries = 0

\* parse_fields on the record made of the tokens.
ParseFieldsCall ==
    /\ pc = "call"
    /\ result' = parse_fields(Join(args.tokens, <<FIELD_SEP>>))
    /\ pc' = "done"
    /\ UNCHANGED <<file, clock, call, args>>
    /\ UNCHANGED scrapeVars

NextFields == ParseFieldsCall

SpecFields == InitFields /\ [][NextFields]_vars

\* The tokens with a key/value separator, and among those the scalar ones.
ValidTokens == {i \in 1..Len(args.tokens) : Contains(args.tokens[i], KV_SEP)}
TokenKey(i) == SubSeq(args.tokens[i], 1, IndexOf(args.tokens[i], KV_SEP) - 1)
ScalarTokens == {i \in ValidTokens : TokenKey(i) \notin {RAA, RAB}}
\* Scalar tokens whose key comes again in a later token.
RepeatedTokens == {i \in ScalarTokens : \E j \in ScalarTokens : j > i /\ TokenKey(j) = TokenKey(i)}
EntryCount == Len(result.d) + Len(result.raa) + Len(result.rab)

\* C8 as stated: the scalar map and the two side-lists hold exactly N entries
\* together, N the number of tokens with a separator, also when a scalar key
\* occurs in more than one token.
C8_ExactlyN == pc = "done" => EntryCount = Cardinality(ValidTokens)

\* C8 amended: the sizes sum to N less the scalar tokens whose key occurs
\* again later in the record (the later value replaces the earlier one), so
\* to exactly N when no scalar key repeats; malformed tokens add nothing and
\* every side-list token is kept, in order.
C8_EntryCount ==
    pc = "done" =>
        /\ EntryCount = Cardinality(ValidTokens) - Cardinality(RepeatedTokens)
        /\ Len(result.d) = Cardinality({TokenKey(i) : i \in ScalarTokens})
        /\ Len(result.raa) = Cardinality({i \in ValidTokens : TokenKey(i) = RAA})
        /\ Len(result.rab) = Cardinality({i \in ValidTokens : TokenKey(i) = RAB})

C8_Witness ==
    /\ pc = "done"
    /\ Cardinality(RepeatedTokens) = 1
    /\ Cardinality(ValidTokens) = 2
    /\ Len(args.tokens) = 3
    /\ EntryCount = 1

\* --------------------------------------------------- _full_name on its own

\* Words of a label: a surname, two initials, and a word with two periods
\* that is too long to be an initial.
WordPool == { <<"K", "l", "a", "e", "b", "o">>, <<"J", ".">>, <<"H", ".">>, <<"J", ".", "H", ".">> }

\* Segments of a slug, the empty one among them ("a-" splits into "a", "").
SegmentPool == { <<"k", "l", "a", "e", "b", "o">>, <<"j", "o", "h", "a", "n", "n", "e", "s">>, <<"h", "o", "e", "s", "f", "l", "o", "t">>, <<>> }

InitName ==
    /\ file = NoFile
    /\ clock = 0
    /\ call = NoCall
    /\ pc = "call"
    /\ args \in {[words |-> w, segments |-> g] :
                    w \in SeqsUpTo(WordPool, MaxWords),
                    g \in SeqsUpTo(SegmentPool, MaxSegments)}
    /\ result = <<>>
    /\ all_matches = <<>>
    /\ attempted_keys = {}
    /\ idx = 0
    /\ data = <<>>
    /\ fetchlog = <<>>
    /\ tries = 0

\* The label and the slug the words and the segments make.
LabelOf(a) == Join(a.words, <<" ">>)
SlugOf(a) == Join(a.segments, <<"-">>)

\* _full_name on the label and the slug.
FullNameCall ==
    /\ pc = "call"
    /\ result' = _full_name(LabelOf(args), SlugOf(args))
    /\ pc' = "done"
    /\ UNCHANGED <<file, clock, call, args>>
    /\ UNCHANGED scrapeVars

NextName == FullNameCall

SpecName == InitName /\ [][NextName]_vars

\* k, s and n of the claim, counted on the words and segments themselves.
InitialCount ==
    Cardinality({i \in 1..Len(args.words) :
                    Len(args.words[i]) <= 3 /\ EndsWithDot(args.words[i])})
SegmentCount == Len(args.segments)
GivenCount == Min(InitialCount, SegmentCount - 1)
\* The last n segments followed by the first s - n, restored and title-cased.
Reordered ==
    LET g == args.segments
        order == SubSeq(g, SegmentCount - GivenCount + 1, SegmentCount)
                 \o SubSeq(g, 1, SegmentCount - GivenCount)
    IN [i \in 1..Len(order) |-> Title(_fix_diacritics(order[i]))]
\* The given-name part is the empty text: one given segment, and it is empty.
GivenIsEmpty == GivenCount = 1 /\ args.segments[SegmentCount] = <<>>
Reconstructs == pc = "done" /\ InitialCount >= 1 /\ SegmentCount >= 2

KlaeboLabel == <<<<"K", "l", "a", "e", "b", "o">>, <<"J", ".">>, <<"H", ".">>>>
KlaeboSlug == <<<<"k", "l", "a", "e", "b", "o">>, <<"j", "o", "h", "a", "n", "n", "e", "s">>, <<"h", "o", "e", "s", "f", "l", "o", "t">>>>
KlaeboName == <<"J", "o", "h", "a", "n", "n", "e", "s", " ", "H", Ouml, "s", "f", "l", "o", "t", " ", "K", "l", Auml, "b", "o">>

\* C9 as stated: for k >= 1 initials and s >= 2 slug segments the result is
\* the last min(k, s-1) segments followed by the other ones, each restored
\* and title-cased, joined by single spaces.
C9_JoinedBySpaces == Reconstructs => result = Join(Reordered, <<" ">>)

\* C9 amended: as stated, except that when the given-name part is the empty
\* text (n = 1 and the last slug segment is empty) the result is the surname
\* part alone, without the space before it; ('Klaebo J. H.',
\* 'klaebo-johannes-hoesflot') gives 'Johannes H<U+00F6>sflot Kl<U+00E4>bo'.
C9_FullName ==
    Reconstructs =>
        /\ GivenCount >= 1 /\ SegmentCount - GivenCount >= 1
        /\ result = IF GivenIsEmpty
                    THEN Join(SubSeq(Reordered, 2, SegmentCount), <<" ">>)
                    ELSE Join(Reordered, <<" ">>)
        /\ (args.words = KlaeboLabel /\ args.segments = KlaeboSlug)
              => result = KlaeboName

C9_Witness ==
    /\ pc = "done"
    /\ args.words = KlaeboLabel
    /\ args.segments = KlaeboSlug
    /\ result = KlaeboName

\* ---------------------------------------------- parse_team_feed on its own

\* Records of a team payload.
\* AA÷m1¬AB÷3¬CX÷Finland D¬AF÷Sverige D¬AG÷2¬AH÷1¬BA÷1¬BB÷0¬BC÷1
RecFinland ==
   <<"A", "A", KV_SEP, "m", "1", FIELD_SEP, "A", "B", KV_SEP, "3",
      FIELD_SEP, "C", "X", KV_SEP, "F", "i", "n", "l", "a", "n", "d", " ",
      "D", FIELD_SEP, "A", "F", KV_SEP, "S", "v", "e", "r", "i", "g", "e",
      " ", "D", FIELD_SEP, "A", "G", KV_SEP, "2", FIELD_SEP, "A", "H",
      KV_SEP, "1", FIELD_SEP, "B", "A", KV_SEP, "1", FIELD_SEP, "B", "B",
      KV_SEP, "0", FIELD_SEP, "B", "C", KV_SEP, "1">>
\* AA÷m2¬AB÷3¬AE÷Norge¬AG÷4¬AH÷x: finished, the away team not in the record
RecHomeOnly ==
   <<"A", "A", KV_SEP, "m", "2", FIELD_SEP, "A", "B", KV_SEP, "3",
      FIELD_SEP, "A", "E", KV_SEP, "N", "o", "r", "g", "e", FIELD_SEP, "A",
      "G", KV_SEP, "4", FIELD_SEP, "A", "H", KV_SEP, "x">>
\* AE÷Kanada D: the away side of the record before it
RecAway ==
   <<"A", "E", KV_SEP, "K", "a", "n", "a", "d", "a", " ", "D">>
\* AA÷m3¬AB÷2¬CX÷USA¬FK÷Norge: live
RecLive ==
   <<"A", "A", KV_SEP, "m", "3", FIELD_SEP, "A", "B", KV_SEP, "2",
      FIELD_SEP, "C", "X", KV_SEP, "U", "S", "A", FIELD_SEP, "F", "K",
      KV_SEP, "N", "o", "r", "g", "e">>
\* AA÷m4¬CX÷USA¬AF÷Norge: no status code
RecNoStatus ==
   <<"A", "A", KV_SEP, "m", "4", FIELD_SEP, "C", "X", KV_SEP, "U", "S",
      "A", FIELD_SEP, "A", "F", KV_SEP, "N", "o", "r", "g", "e">>
\* SA÷1: a header record
RecHeader ==
   <<"S", "A", KV_SEP, "1">>

TeamRecordPool == {RecFinland, RecHomeOnly, RecAway, RecLive, RecNoStatus, RecHeader}

\* What stands before the records: two header records, a header followed by
\* a match-like record, or one header record only.
TeamHeaders == {<<RecHeader, RecHeader>>, <<RecHeader, RecFinland>>, <<RecHeader>>}

InitTeam ==
    /\ file = NoFile
    /\ clock = 0
    /\ call = NoCall
    /\ pc = "call"
    /\ args \in {[header |-> h, records |-> r, entry |-> e] :
                    h \in TeamHeaders,
                    r \in SeqsUpTo(TeamRecordPool, MaxRecords),
                    e \in {TEAM_FEEDS[1]}}
    /\ result = [matches |-> <<>>, seen |-> <<>>]
    /\ all_matches = <<>>
    /\ attempted_keys = {}
    /\ idx = 0
    /\ data = <<>>
    /\ fetchlog = <<>>
    /\ tries = 0

\* parse_team_feed on the payload made of the records.
ParseTeamFeedCall ==
    /\ pc = "call"
    /\ result' = parse_team_feed(Join(args.header \o args.records, <<REC_SEP>>), args.entry)
    /\ pc' = "done"
    /\ UNCHANGED <<file, clock, call, args>>
    /\ UNCHANGED scrapeVars

NextTeam == ParseTeamFeedCall

SpecTeam == InitTeam /\ [][NextTeam]_vars

\* The records of the payload and what each one says.
TeamRecords == args.header \o args.records
TeamFields(i) == parse_fields(TeamRecords[i]).d
HasMatchId(i) == DictHas(TeamFields(i), AA)
StatusCode(i) == DictGet(TeamFields(i), AB, <<>>)
LacksAway(i) ==
    _clean_team(DictGet(TeamFields(i), AF, DictGet(TeamFields(i), FK, <<>>))) = <<>>

\* The records after the header that carry the match identifier.
MatchRecords == {i \in 3..Len(TeamRecords) : HasMatchId(i)}

RECURSIVE IsDecoded(_)
\* A match record is decoded unless it directly follows a decoded match
\* record without an away team, which reads it for the away team only.
IsDecoded(i) ==
    /\ i >= 3
    /\ HasMatchId(i)
    /\ ~(IsDecoded(i - 1) /\ LacksAway(i - 1))

DecodedRecords == {i \in MatchRecords : IsDecoded(i)}

\* The place of record i among the records of S, in record order.
Rank(S, i) == Cardinality({k \in S : k <= i})

ExpectedStatus(i) ==
    IF StatusCode(i) = <<"3">> THEN "finished"
    ELSE IF StatusCode(i) = <<"2">> THEN "live" ELSE "scheduled"

Finland == <<"F", "i", "n", "l", "a", "n", "d">>

\* C10 as stated: the returned list holds exactly the records after the
\* header that carry the match identifier and have status code '3', in
\* record order.
C10_EveryFinishedRecord ==
    pc = "done" =>
        LET fin == {i \in MatchRecords : StatusCode(i) = <<"3">>}
        IN /\ Len(result.matches) = Cardinality(fin)
           /\ \A i \in fin :
                 result.matches[Rank(fin, i)].event_id = DictGet(TeamFields(i), AA, <<>>)

\* C10 amended: the claim holds of the match records that are decoded, that
\* is of those that do not directly follow a decoded match record without an
\* away team of its own (such a record is read for the away team name only).
\* Each decoded record gets status finished for '3', live for '2', scheduled
\* otherwise; the returned list is exactly the finished ones in record
\* order; and the record with status '3', home 'Finland D' and scores 2/1
\* gives home 'Finland', finished, home_score 2, away_score 1.
C10_TeamDecode ==
    pc = "done" =>
        LET fin == {i \in DecodedRecords : StatusCode(i) = <<"3">>}
        IN /\ Len(result.seen) = Cardinality(DecodedRecords)
           /\ \A i \in DecodedRecords :
                 LET m == result.seen[Rank(DecodedRecords, i)]
                 IN /\ m.event_id = DictGet(TeamFields(i), AA, <<>>)
                    /\ m.status = ExpectedStatus(i)
                    /\ TeamRecords[i] = RecFinland =>
                          /\ m.home = Finland
                          /\ m.status = "finished"
                          /\ m.home_score = Some(2)
                          /\ m.away_score = Some(1)
           /\ Len(result.matches) = Cardinality(fin)
           /\ \A i \in fin :
                 result.matches[Rank(fin, i)] = result.seen[Rank(DecodedRecords, i)]

C10_Witness ==
    /\ pc = "done"
    /\ args.header = <<RecHeader, RecHeader>>
    /\ args.records = <<RecLive, RecFinland, RecNoStatus>>
    /\ Len(result.matches) = 1
    /\ result.matches[1].home = Finland
    /\ result.matches[1].home_score = Some(2)
    /\ result.seen[1].status = "live"
    /\ result.seen[3].status = "scheduled"

\* ------------------------------------------------------- the whole script

\* What the results page of a team entry can hold.
\* AA÷m1¬AB÷3¬AD÷1770000000¬AE÷A¬AF÷B D¬AG÷2¬AH÷1
TeamPage ==
   <<"A", "A", KV_SEP, "m", "1", FIELD_SEP, "A", "B", KV_SEP, "3",
      FIELD_SEP, "A", "D", KV_SEP, "1", "7", "7", "0", "0", "0", "0", "0",
      "0", "0", FIELD_SEP, "A", "E", KV_SEP, "A", FIELD_SEP, "A", "F",
      KV_SEP, "B", " ", "D", FIELD_SEP, "A", "G", KV_SEP, "2", FIELD_SEP,
      "A", "H", KV_SEP, "1">>
TeamPages == {[ok |-> FALSE, data |-> <<>>], [ok |-> TRUE, data |-> TeamPage]}

\* What fetch_feed can return: "" on an error, or a payload.
\* SA÷1~AE÷Bo¬FU÷Sverige¬AB÷3¬RAA÷7¬RAB÷1: a finished result
ResultPayload ==
   <<"S", "A", KV_SEP, "1", REC_SEP, "A", "E", KV_SEP, "B", "o", FIELD_SEP,
      "F", "U", KV_SEP, "S", "v", "e", "r", "i", "g", "e", FIELD_SEP, "A",
      "B", KV_SEP, "3", FIELD_SEP, "R", "A", "A", KV_SEP, "7", FIELD_SEP,
      "R", "A", "B", KV_SEP, "1">>
\* SA÷1~AE÷Bo¬FU÷Sverige¬AB÷1: a start list
StartPayload ==
   <<"S", "A", KV_SEP, "1", REC_SEP, "A", "E", KV_SEP, "B", "o", FIELD_SEP,
      "F", "U", KV_SEP, "S", "v", "e", "r", "i", "g", "e", FIELD_SEP, "A",
      "B", KV_SEP, "1">>
\* SA+1: a header record and nothing else
JunkPayload == <<"S", "A", KV_SEP, "1">>
\* SA+1~AE+Di|FU+Norge|AB+3|RAA+7|RAB+DNF: a finished row whose position is
\* no number
DnfPayload ==
   <<"S", "A", KV_SEP, "1", REC_SEP, "A", "E", KV_SEP, "D", "i", FIELD_SEP,
      "F", "U", KV_SEP, "N", "o", "r", "g", "e", FIELD_SEP, "A", "B", KV_SEP,
      "3", FIELD_SEP, "R", "A", "A", KV_SEP, "7", FIELD_SEP, "R", "A", "B",
      KV_SEP, "D", "N", "F">>
FeedTexts == {<<>>, ResultPayload, StartPayload, JunkPayload, DnfPayload}

\* fetch_team_results_html(entry) of every team entry on every page, and
\* what lines 498-510 make of every payload of every feed entry: the values
\* the steps below use, each computed once.
TeamResults ==
    [j \in 1..Len(TEAM_FEEDS), page \in TeamPages |->
        fetch_team_results_html(page, TEAM_FEEDS[j])]
DecodedPayloads ==
    [i \in 1..NumFeeds, text \in FeedTexts \ {<<>>} |-> Decoded(text, FEEDS[i])]

Init ==
    /\ file = NoFile
    /\ clock = 1
    /\ call = NoCall
    /\ pc = "team"
    /\ args = <<>>
    /\ result = <<>>
    /\ all_matches = <<>>
    /\ attempted_keys = {}
    /\ idx = 1
    /\ data = <<>>
    /\ fetchlog = <<>>
    /\ tries = 0

\* One turn of the loop over TEAM_FEEDS (lines 477-481).
FetchTeam ==
    /\ pc = "team"
    /\ \E page \in TeamPages :
          /\ all_matches' = all_matches \o TeamResults[idx, page]
          /\ fetchlog' = Append(fetchlog, [kind |-> "team", idx |-> idx, ok |-> page.ok])
    /\ tries' = 1
    /\ IF idx < Len(TEAM_FEEDS)
       THEN idx' = idx + 1 /\ pc' = pc
       ELSE idx' = 1 /\ pc' = "feed"
    /\ UNCHANGED <<file, clock, call, args, result, attempted_keys, data>>

AfterFeedAborts == "write"

\* Where the loop over FEEDS goes after the entry idx.
AfterFeed == IF idx < NumFeeds THEN "feed" ELSE "write"

\* The start of a turn of the loop over FEEDS: the key is added and the feed
\* is fetched (lines 485-488).
FetchFeed ==
    /\ pc = "feed"
    /\ attempted_keys' = Attempt(attempted_keys, FEEDS[idx])
    /\ \E text \in FeedTexts :
          /\ data' = text
          /\ fetchlog' = IF text = <<>> THEN fetchlog
                         ELSE Append(fetchlog, [kind |-> "feed", idx |-> idx, ok |-> TRUE])
          /\ pc' = IF text = <<>> THEN "retry" ELSE "decode"
    /\ tries' = 1
    /\ UNCHANGED <<file, clock, call, args, result, all_matches, idx>>

\* The retry after an empty first fetch, and the continue after an empty
\* second one (lines 489-496).
RetryFeed ==
    /\ pc = "retry"
    /\ \E text \in FeedTexts :
          /\ data' = text
          /\ fetchlog' = Append(fetchlog, [kind |-> "feed", idx |-> idx, ok |-> text # <<>>])
          /\ IF text = <<>>
             THEN pc' = AfterFeed /\ idx' = idx + 1
             ELSE pc' = "decode" /\ idx' = idx
    /\ tries' = 2
    /\ UNCHANGED <<file, clock, call, args, result, all_matches, attempted_keys>>

\* The decoding of a payload (lines 498-512).  A TypeError of the decoder
\* ends the script before anything is written.
DecodeFeed ==
    /\ pc = "decode"
    /\ \E r \in {DecodedPayloads[idx, data]} :
          IF r.raised
          THEN pc' = "crashed" /\ UNCHANGED <<all_matches, idx>>
          ELSE /\ all_matches' = all_matches \o r.added
               /\ pc' = AfterFeed
               /\ idx' = idx + 1
    /\ UNCHANGED <<file, clock, call, args, result, attempted_keys, data, fetchlog, tries>>

\* main: write_if_changed(matches, attempted_keys) once scrape_all returned.
WriteRun ==
    /\ pc = "write"
    /\ \E r \in {WriteIfChanged(file, all_matches, attempted_keys, clock)} :
          /\ file' = r.file
          /\ call' = [n |-> clock, before |-> file, matches |-> all_matches,
                      attempted_keys |-> attempted_keys, ret |-> r.ret,
                      merged_list |-> r.merged_list, early |-> r.early]
    /\ pc' = "done"
    /\ UNCHANGED <<clock, args, result>>
    /\ UNCHANGED scrapeVars

\* The script is run again.
StartRun ==
    /\ pc \in {"done", "crashed"}
    /\ clock < MaxRuns
    /\ clock' = clock + 1
    /\ call' = NoCall
    /\ pc' = "team"
    /\ all_matches' = <<>>
    /\ attempted_keys' = {}
    /\ idx' = 1
    /\ data' = <<>>
    /\ fetchlog' = <<>>
    /\ tries' = 0
    /\ UNCHANGED <<file, args, result>>

Next == FetchTeam \/ FetchFeed \/ RetryFeed \/ DecodeFeed \/ WriteRun \/ StartRun

Spec == Init /\ [][Next]_vars

\* Where the log of this run tells how the fetch of the entry ended.
FetchesOf(kind, i) == {n \in 1..Len(fetchlog) : fetchlog[n].kind = kind /\ fetchlog[n].idx = i}
\* The entry was fetched and its fetch failed, the retry included.
FetchFailed(kind, i) ==
    /\ FetchesOf(kind, i) # {}
    /\ \A n \in FetchesOf(kind, i) : ~fetchlog[n].ok
\* The feed entry an entity comes from was fetched in this run, and failed.
OwnFeedFailed(e) ==
    IF e.type = "team"
    THEN \E j \in 1..Len(TEAM_FEEDS) :
            /\ TEAM_FEEDS[j].sport = e.sport /\ TEAM_FEEDS[j].event = e.event
            /\ FetchFailed("team", j)
    ELSE \E i \in 1..NumFeeds :
            /\ FEEDS[i].sport = e.sport /\ FEEDS[i].event = e.event
            /\ FetchFailed("feed", i)

\* C5 as stated: an entity of the file is still in the file after a run in
\* which the fetch of its own feed failed, also when other feeds succeeded.
C5_NeverLost ==
    pc = "done" =>
        \A e \in Range(Prev) : OwnFeedFailed(e) => e \in Range(ExistingMatches(file))

\* C5 amended: an entity of the file whose own feed failed in a run is still
\* in the file after that run when it is a team match or when the run
\* decoded no entity at all; an individual result or start list whose feed
\* failed is removed by a run that decoded an entity from any other feed.
C5_LostOnlyWhenOthersSucceed ==
    pc = "done" =>
        \A e \in Range(Prev) : OwnFeedFailed(e) =>
            IF e.type = "team" \/ call.matches = <<>>
            THEN e \in Range(ExistingMatches(file))
            ELSE _match_key(e) \notin KeysOf(ExistingMatches(file))

C5_Witness ==
    /\ pc = "done"
    /\ call.matches # <<>>
    /\ \E e \in Range(Prev) :
          e.type = "team" /\ OwnFeedFailed(e) /\ e \in Range(file.matches)
    /\ \E e \in Range(Prev) :
          e.type = "individual" /\ OwnFeedFailed(e) /\ e \notin Range(file.matches)

\* The team matches of the file that come from the team entry j.
PersistedOf(j) ==
    {e \in Range(ExistingMatches(file)) :
        e.type = "team" /\ e.sport = TEAM_FEEDS[j].sport /\ e.event = TEAM_FEEDS[j].event}

\* C7 as stated: when scrape_all returns, attempted_keys holds the key of
\* every individual entry that was fetched and the key of every persisted
\* team match whose team entry was fetched, so that such a match is a retire
\* candidate.
C7_TeamKeysAttempted ==
    pc = "write" =>
        /\ \A i \in 1..NumFeeds : FeedKey(FEEDS[i]) \in attempted_keys
        /\ \A j \in 1..Len(TEAM_FEEDS) :
              FetchesOf("team", j) # {} =>
                  \A e \in PersistedOf(j) : _match_key(e) \in attempted_keys

\* C7 amended: when scrape_all returns, attempted_keys is exactly the set of
\* keys sport:event of the entries of FEEDS, each added before its fetch and
\* whether or not the fetch or the decoding gave anything; no key of a team
\* entry or team match is in it, so a persisted team match is never a retire
\* candidate.
C7_IndividualKeysAttempted ==
    /\ pc \in {"retry", "decode"} => FeedKey(FEEDS[idx]) \in attempted_keys
    /\ pc = "write" =>
          /\ attempted_keys = {FeedKey(FEEDS[i]) : i \in 1..NumFeeds}
          /\ \A i \in 1..NumFeeds : FetchesOf("feed", i) # {}
          /\ \A j \in 1..Len(TEAM_FEEDS) :
                /\ FetchesOf("team", j) # {}
                /\ \A e \in PersistedOf(j) : _match_key(e) \notin attempted_keys

C7_Witness ==
    /\ pc = "write"
    /\ FetchFailed("feed", 1)
    /\ data = JunkPayload
    /\ FeedKey(FEEDS[1]) \in attempted_keys
    /\ FeedKey(FEEDS[NumFeeds]) \in attempted_keys
    /\ FetchFailed("team", 1)
    /\ PersistedOf(1) # {}

\* ---------------------------------------- parse_individual_feed on its own

Sverige == <<"S", "v", "e", "r", "i", "g", "e">>
Norge == <<"N", "o", "r", "g", "e">>
\* 1770000000, after MIN_TIMESTAMP, and 5, before it
RecentStamp == <<"1", "7", "7", "0", "0", "0", "0", "0", "0", "0">>
OldStamp == <<"5">>

\* The records of a payload are written from descriptions: an athlete
\* record from the texts of its fields (<<>> for a field the record does not
\* have), a section header from the name of its round.
NoRow ==
    [kind |-> "row", ae |-> <<>>, wu |-> <<>>, fu |-> <<>>, ab |-> <<>>,
     ad |-> <<>>, pos |-> <<>>, time |-> <<>>]
RoundHeader(name) == [kind |-> "round", name |-> name]

\* key÷value
KV(k, v) == k \o <<KV_SEP>> \o v
\* a scalar field, or nothing for a text not given
Opt(k, v) == IF v = <<>> THEN <<>> ELSE <<KV(k, v)>>
\* a side-list pair RAA÷k¬RAB÷v, or nothing for a text not given
Side(k, v) == IF v = <<>> THEN <<>> ELSE <<KV(RAA, k), KV(RAB, v)>>

\* The text of the record a description stands for.
RecordText(r) ==
    IF r.kind = "round" THEN KV(ZAE, r.name)
    ELSE Join(<<KV(AE, r.ae)>> \o Opt(WU, r.wu) \o Opt(FU, r.fu) \o Opt(AB, r.ab)
              \o Opt(AD, r.ad) \o Side(<<"7">>, r.pos) \o Side(<<"5">>, r.time),
              <<FIELD_SEP>>)

\* The payload: the header record, which the decoders skip, then the records.
PayloadText(rows) ==
    Join(<<RecHeader>> \o [i \in 1..Len(rows) |-> RecordText(rows[i])], <<REC_SEP>>)

\* Finished rows of one round.
RowBo ==
    [NoRow EXCEPT !.ae = <<"B", "o">>, !.fu = Norge, !.ab = <<"3">>,
                  !.ad = RecentStamp, !.pos = <<"1">>, !.time = <<"9", ".", "5">>]
RowAl ==
    [NoRow EXCEPT !.ae = <<"A", "l">>, !.fu = Sverige, !.ab = <<"3">>, !.pos = <<"2">>]
\* the same athlete once more, further down
RowAlAgain ==
    [NoRow EXCEPT !.ae = <<"A", "l">>, !.fu = Sverige, !.ab = <<"3">>, !.pos = <<"7">>]
\* another name and another country that read the same when put together
RowAlS ==
    [NoRow EXCEPT !.ae = <<"A", "l", "S">>, !.fu = <<"v", "e", "r", "i", "g", "e">>,
                  !.ab = <<"3">>, !.pos = <<"3">>]
RowCy ==
    [NoRow EXCEPT !.ae = <<"C", "y">>, !.fu = Norge, !.ab = <<"3">>,
                  !.ad = OldStamp, !.pos = <<"5">>]
\* no position given
RowEd ==
    [NoRow EXCEPT !.ae = <<"E", "d">>, !.fu = Sverige, !.ab = <<"3">>, !.ad = <<"0">>]
\* did not finish: the position is a text that is no number
RowDi ==
    [NoRow EXCEPT !.ae = <<"D", "i">>, !.fu = Norge, !.ab = <<"3">>,
                  !.pos = <<"D", "N", "F">>]
\* not finished yet
RowFy ==
    [NoRow EXCEPT !.ae = <<"F", "y">>, !.fu = Sverige, !.ab = <<"1">>, !.pos = <<"1">>]

ResultRowPool == {RowBo, RowAl, RowAlAgain, RowAlS, RowCy, RowEd, RowDi, RowFy}

\* The decimal text of a number below 100.
DecimalText(n) ==
    IF n < 10 THEN <<Digits[n + 1]>> ELSE <<Digits[(n \div 10) + 1], Digits[(n % 10) + 1]>>

\* Twenty finished rows at the positions 1 to 20, the home-federation
\* athlete at position 7.
TwentyRows ==
    [i \in 1..20 |->
        [NoRow EXCEPT !.ae = <<"R">> \o DecimalText(i),
                      !.fu = IF i = 7 THEN Sverige ELSE Norge,
                      !.ab = <<"3">>,
                      !.pos = DecimalText(i)]]

InitIndividual ==
    /\ file = NoFile
    /\ clock = 0
    /\ call = NoCall
    /\ pc = "call"
    /\ args \in {[rows |-> r, entry |-> FEEDS[1]] :
                    r \in SeqsUpTo(ResultRowPool, MaxRows) \cup {TwentyRows}}
    /\ result = NoEntity
    /\ all_matches = <<>>
    /\ attempted_keys = {}
    /\ idx = 0
    /\ data = <<>>
    /\ fetchlog = <<>>
    /\ tries = 0

\* parse_individual_feed on the payload made of the records.
ParseIndividualFeedCall ==
    /\ pc = "call"
    /\ result' = parse_individual_feed(PayloadText(args.rows), args.entry)
    /\ pc' = "done"
    /\ UNCHANGED <<file, clock, call, args>>
    /\ UNCHANGED scrapeVars

NextIndividual == ParseIndividualFeedCall

SpecIndividual == InitIndividual /\ [][NextIndividual]_vars

\* What a description of a row says: its position (the sentinel when none
\* is given), and the pair (name, country) of its athlete.
RowPosition(r) == IF r.pos = <<>> THEN NO_POS ELSE DecimalValue(r.pos)
RowPair(r) == <<r.ae, r.fu>>
ResultPair(x) == <<x.name, x.country>>

\* The rows of the payload that are on the podium or of the home federation.
EligibleRows == {i \in 1..Len(args.rows) :
                    RowPosition(args.rows[i]) <= 3 \/ args.rows[i].fu \in SWE_COUNTRIES}

ReturnsEntity == pc = "done" /\ result.kind = "entity"

\* C11: whenever parse_individual_feed returns an entity, every result row
\* is a row of the payload with position <= 3 or of the home federation,
\* every such row has its (name, country) pair among the result rows, no two
\* result rows have the same pair, the result rows are sorted by position
\* ascending, and the twenty rows with the home athlete at position 7 give
\* the positions 1, 2, 3, 7.
C11_PodiumAndHome ==
    ReturnsEntity =>
        LET res == result.entity.results
        IN /\ \A j \in 1..Len(res) :
                 \E i \in EligibleRows :
                    /\ ResultPair(res[j]) = RowPair(args.rows[i])
                    /\ res[j].pos = Some(RowPosition(args.rows[i]))
           /\ \A i \in EligibleRows :
                 \E j \in 1..Len(res) : ResultPair(res[j]) = RowPair(args.rows[i])
           /\ \A j, k \in 1..Len(res) : ResultPair(res[j]) = ResultPair(res[k]) => j = k
           /\ \A j \in 1..(Len(res) - 1) : res[j].pos[1] <= res[j + 1].pos[1]
           /\ args.rows = TwentyRows =>
                 [j \in 1..Len(res) |-> res[j].pos[1]] = <<1, 2, 3, 7>>

\* ------------------------------- parse_individual_feed on a payload of rounds

HdrTotalt == RoundHeader(Totalt)
HdrHeat == RoundHeader(<<"H", "e", "a", "t">>)

\* Records of a heat round: a time each, and what else a record can carry.
HeatAl ==
    [NoRow EXCEPT !.ae = <<"A", "l">>, !.ab = <<"3">>, !.ad = RecentStamp,
                  !.time = <<"8">>]
HeatAlLater ==
    [NoRow EXCEPT !.ae = <<"A", "l">>, !.ad = OldStamp, !.time = <<"9">>]
\* the label of Al under another identifier
HeatX ==
    [NoRow EXCEPT !.ae = <<"A", "l">>, !.wu = <<"x">>, !.time = <<"7">>]

HeatRowPool == {HeatAl, HeatAlLater, HeatX}
\* a row not finished, under the identifier of HeatX
RowXi ==
    [NoRow EXCEPT !.ae = <<"X", "i">>, !.wu = <<"x">>, !.fu = Sverige, !.pos = <<"4">>]

TotalsRowPool == {RowAl, RowBo, RowCy, RowEd, RowXi}

\* The heat round before the totals round, after it, and after a totals
\* round that no header announces.
RoundLayouts(heat, totals) ==
    { <<HdrHeat>> \o heat \o <<HdrTotalt>> \o totals,
      <<HdrTotalt>> \o totals \o <<HdrHeat>> \o heat,
      totals \o <<HdrHeat>> \o heat }

InitRounds ==
    /\ file = NoFile
    /\ clock = 0
    /\ call = NoCall
    /\ pc = "call"
    /\ \E heat \in SeqsUpTo(HeatRowPool, MaxRoundRows),
          totals \in SeqsUpTo(TotalsRowPool, MaxRoundRows) :
          args \in {[rows |-> r, entry |-> FEEDS[1]] : r \in RoundLayouts(heat, totals)}
    /\ result = NoEntity
    /\ all_matches = <<>>
    /\ attempted_keys = {}
    /\ idx = 0
    /\ data = <<>>
    /\ fetchlog = <<>>
    /\ tries = 0

\* parse_individual_feed on the payload made of the rounds.
ParseRoundsCall ==
    /\ pc = "call"
    /\ result' = parse_individual_feed(PayloadText(args.rows), args.entry)
    /\ pc' = "done"
    /\ UNCHANGED <<file, clock, call, args>>
    /\ UNCHANGED scrapeVars

NextRounds == ParseRoundsCall

SpecRounds == InitRounds /\ [][NextRounds]_vars

\* What the descriptions of a payload say.  The round a record stands in is
\* named by the last section header before it; a record is of the totals
\* round when that header names it or when there is none.
AthleteRecords == {i \in 1..Len(args.rows) : args.rows[i].kind = "row"}
HeadersBefore(i) == {h \in 1..(i - 1) : args.rows[h].kind = "round"}
InTotalsRound(i) ==
    \/ HeadersBefore(i) = {}
    \/ \E h \in HeadersBefore(i) :
          /\ \A g \in HeadersBefore(i) : g <= h
          /\ args.rows[h].name = Totalt
TotalsRecords == {i \in AthleteRecords : InTotalsRound(i)}
HeatRecords == AthleteRecords \ TotalsRecords

\* The per-athlete identifier of a record.
RowIdent(r) == IF r.wu # <<>> THEN r.wu ELSE r.ae

\* The timestamps of a set of records that count: those that are not 0.
StampsOf(S) == {DecimalValue(args.rows[i].ad) : i \in {k \in S : args.rows[k].ad # <<>>}} \ {0}
MaxStamp(stamps) ==
    IF stamps = {} THEN None ELSE Some(CHOOSE t \in stamps : \A u \in stamps : u <= t)
\* Every timestamp a set of records gives, 0 too.
AllStampsOf(S) == {DecimalValue(args.rows[i].ad) : i \in {k \in S : args.rows[k].ad # <<>>}}

IsBelowCutoff(ts) == ts # None /\ ts[1] < MIN_TIMESTAMP

\* C12 as stated: no entity whenever the maximum timestamp seen across the
\* athlete records is below the cutoff; an entity's timestamp is absent or
\* not below the cutoff.
C12_MaxStampBelowCutoff ==
    pc = "done" =>
        /\ IsBelowCutoff(MaxStamp(AllStampsOf(AthleteRecords))) => result = NoEntity
        /\ result.kind = "entity" => ~IsBelowCutoff(result.entity.timestamp)

\* C12 amended: the run-level timestamp is the maximum of the timestamps
\* that are not 0 over all athlete records, those of heat rounds too (a
\* timestamp of 0 counts as absent).  When it is present and below the
\* cutoff no entity is returned, whatever the rows are; an entity carries
\* the run-level timestamp, which is absent or not below the cutoff.
C12_StaleRejected ==
    pc = "done" =>
        LET ts == MaxStamp(StampsOf(AthleteRecords))
        IN /\ IsBelowCutoff(ts) => result = NoEntity
           /\ result.kind = "entity" =>
                 /\ result.entity.timestamp = ts
                 /\ ~IsBelowCutoff(ts)

\* A finished home-federation row on the podium, rejected for the old
\* timestamp of another row.
C12_Witness ==
    /\ pc = "done"
    /\ args.rows = <<HdrTotalt, RowAl, RowCy, HdrHeat>>
    /\ MaxStamp(StampsOf(AthleteRecords)) = Some(5)
    /\ result = NoEntity

\* C13: for every payload, parse_individual_feed ends by returning an entity
\* or no entity, never by raising, and every row of a returned entity has an
\* integer position, the sentinel when the record gives no position value.
C13_PositionSortable ==
    pc = "done" =>
        /\ result.kind \in {"entity", "none"}
        /\ result.kind = "entity" =>
              \A j \in 1..Len(result.entity.results) :
                 /\ result.entity.results[j].pos # None
                 /\ result.entity.results[j].pos[1] \in Nat

\* --------------------------------------- scrape_espn.py: write_if_changed

\* Entries of the results file carry an event; entries of the standings file
\* carry a country and no event.  v and gold stand for the rest of an entry.
EspnResultPool ==
    {[event |-> "slalom", v |-> 1], [event |-> "slalom", v |-> 2], [event |-> "sprint", v |-> 1]}
EspnStandingPool ==
    {[country_code |-> "SWE", gold |-> 1], [country_code |-> "SWE", gold |-> 2],
     [country_code |-> "NOR", gold |-> 1]}
EspnPool(kind) == IF kind = "results" THEN EspnResultPool ELSE EspnStandingPool

\* existing = json.load(f), [] when the file is missing or unreadable
EspnExisting(f) == IF f.present THEN f.matches ELSE <<>>

\* {r["event"]: r for r in existing} when the first entry has an event
RECURSIVE EspnByEvent(_, _)
EspnByEvent(list, n) ==
    IF n = 0 THEN <<>>
    ELSE Bind(EspnByEvent(list, n - 1), LAMBDA d : DictSet(d, list[n].event, list[n]))

ExistingByEvent(existing) ==
    IF existing # <<>> /\ "event" \in DOMAIN existing[1]
    THEN EspnByEvent(existing, Len(existing))
    ELSE <<>>

\* for r in data: existing_by_event[r["event"]] = r
RECURSIVE EspnOverlay(_, _, _)
EspnOverlay(d, list, n) ==
    IF n = 0 THEN d
    ELSE Bind(EspnOverlay(d, list, n - 1), LAMBDA e : DictSet(e, list[n].event, list[n]))

\* if not data and existing and not allow_empty
EspnKeepsExistingNever(list, existing, allow_empty) == FALSE

EspnKeepsExisting(list, existing, allow_empty) ==
    list = <<>> /\ existing # <<>> /\ ~allow_empty

\* The list lines 333-339 leave in data.
EspnMerged(list, existing, allow_empty) ==
    IF ~allow_empty /\ Len(list) < Len(existing)
    THEN Bind(ExistingByEvent(existing), LAMBDA existing_by_event :
            IF existing_by_event # <<>>
            THEN DictValues(EspnOverlay(existing_by_event, list, Len(list)))
            ELSE list)
    ELSE list

\* write_if_changed(data, filepath, label, allow_empty): the returned value
\* and the file it leaves.
EspnWriteIfChanged(f, list, allow_empty) ==
    Bind(EspnExisting(f), LAMBDA existing :
       IF list = existing THEN [ret |-> FALSE, file |-> f]
       ELSE IF EspnKeepsExisting(list, existing, allow_empty) THEN [ret |-> FALSE, file |-> f]
       ELSE [ret |-> TRUE,
             file |-> [present |-> TRUE, scraped_at |-> 0,
                       matches |-> EspnMerged(list, existing, allow_empty)]])

InitEspn ==
    /\ file = NoFile
    /\ clock = 0
    /\ call = NoCall
    /\ pc = "idle"
    /\ args \in {[kind |-> k] : k \in {"results", "standings"}}
    /\ result = NoEntity
    /\ all_matches = <<>>
    /\ attempted_keys = {}
    /\ idx = 0
    /\ data = <<>>
    /\ fetchlog = <<>>
    /\ tries = 0

\* One call of write_if_changed on the file of args.kind.
EspnWriteCall ==
    /\ clock < MaxCalls
    /\ \E list \in SeqsUpTo(EspnPool(args.kind), MaxBatch), allow_empty \in BOOLEAN :
          LET out == EspnWriteIfChanged(file, list, allow_empty)
          IN /\ file' = out.file
             /\ call' = [data |-> list, allow_empty |-> allow_empty,
                         before |-> file, ret |-> out.ret]
    /\ clock' = clock + 1
    /\ pc' = "called"
    /\ UNCHANGED <<args, result>>
    /\ UNCHANGED scrapeVars

NextEspn == EspnWriteCall

SpecEspn == InitEspn /\ [][NextEspn]_vars

\* C14: a call with allow_empty = False on a file holding a non-empty list
\* leaves a non-empty list in the file, so no sequence of such calls replaces
\* a non-empty list by an empty one; and a call whose data equals the file
\* content leaves the file as it is and returns False.
C14_EspnNeverEmpties ==
    [][ /\ (~call'.allow_empty /\ EspnExisting(file) # <<>>) => EspnExisting(file') # <<>>
        /\ call'.data = EspnExisting(file) => (file' = file /\ ~call'.ret)
      ]_vars

\* An empty list offered to a file that holds entries: nothing written.
C14_Witness ==
    /\ pc = "called"
    /\ ~call.allow_empty
    /\ call.data = <<>>
    /\ EspnExisting(call.before) # <<>>
    /\ ~call.ret
    /\ file = call.before

\* ------------------------------------------- write_if_changed, run twice

\* What write_if_changed does with the batch and the attempted keys of the
\* last call on the file that call left.
SecondRun == WriteIfChanged(file, call.matches, call.attempted_keys, clock + 1)

\* C15: after any call of write_if_changed, a second call with the same
\* batch and the same attempted keys returns False and leaves the file, its
\* entity list included, as the first call left it.
C15_Idempotent ==
    Called =>
        /\ SecondRun.ret = FALSE
        /\ SecondRun.file = file
        /\ ExistingMatches(SecondRun.file) = ExistingMatches(file)

\* A first run that retired an entry, replaced another and wrote the file.
C15_Witness ==
    /\ Called
    /\ Prev = <<EntA, EntB>>
    /\ call.matches = <<EntA2>>
    /\ call.attempted_keys = {_match_key(EntA), _match_key(EntB)}
    /\ call.ret = TRUE
    /\ file.matches = <<EntA2>>
    /\ SecondRun.ret = FALSE

\* ------------------------------------------------ the fetches of scrape_all

InLoop == pc \in {"team", "feed", "retry", "decode"}

\* How the fetches of the individual entries ended, in the order of the run.
FeedOutcomes == SelectSeq(fetchlog, LAMBDA o : o.kind = "feed")

\* The entities scrape_all holds that come from the feed entry i.
EntitiesOf(i) ==
    {n \in 1..Len(all_matches) :
        /\ all_matches[n].type # "team"
        /\ all_matches[n].sport = FEEDS[i].sport
        /\ all_matches[n].event = FEEDS[i].event}

\* The steps scrape_all has left at most: three for every feed entry not yet
\* begun, fewer for the one under way, one for every team entry.
StepsLeft ==
    CASE pc = "team" -> 3 * NumFeeds + (Len(TEAM_FEEDS) - idx + 1)
      [] pc = "feed" -> 3 * (NumFeeds - idx + 1)
      [] pc = "retry" -> 3 * (NumFeeds - idx + 1) - 1
      [] pc = "decode" -> 3 * (NumFeeds - idx + 1) - 2
      [] OTHER -> 0

\* The fetches of one state: a second fetch is due only with the first one
\* empty; when scrape_all has returned, every entry of FEEDS has been fetched,
\* in list order, and an entry whose fetches all failed has its key among the
\* attempted keys and no entity.
FetchesInOrder ==
    /\ tries \in 0..2
    /\ pc = "retry" => (tries = 1 /\ data = <<>>)
    /\ InLoop => ENABLED (FetchTeam \/ FetchFeed \/ RetryFeed \/ DecodeFeed)
    /\ pc = "write" =>
          /\ Len(FeedOutcomes) = NumFeeds
          /\ \A i \in 1..NumFeeds :
                /\ FeedOutcomes[i].idx = i
                /\ ~FeedOutcomes[i].ok =>
                      /\ FeedKey(FEEDS[i]) \in attempted_keys
                      /\ EntitiesOf(i) = {}

\* The steps of the loop: an entry is left for the next one of the list,
\* never begun again; a failed second fetch adds nothing and goes on to the
\* next entry, or to the end after the last; the run is ended early by the
\* decoding only; every step leaves fewer steps.
FetchStep ==
    /\ (pc \in {"feed", "retry", "decode"} /\ pc' = "feed") => idx' = idx + 1
    /\ pc = "feed" => (idx' = idx /\ tries' = 1 /\ pc' = IF data' = <<>> THEN "retry" ELSE "decode")
    /\ pc = "retry" =>
          /\ tries' = 2
          /\ data' # <<>> => (pc' = "decode" /\ idx' = idx)
          /\ data' = <<>> =>
                /\ pc' = IF idx < NumFeeds THEN "feed" ELSE "write"
                /\ all_matches' = all_matches
                /\ FeedKey(FEEDS[idx]) \in attempted_keys'
    /\ pc' = "crashed" => pc = "decode"
    /\ InLoop => StepsLeft' < StepsLeft

\* C16: each individual entry is fetched at most twice, the second time only
\* after an empty first fetch; whichever fetches fail, the loop goes through
\* every later entry in list order and ends; an entry whose two fetches
\* failed adds no entity and has its key in attempted_keys.
C16_RetryNoAbort == []FetchesInOrder /\ [][FetchStep]_vars

\* The first entry failed twice; the loop went on and the last entry gave an
\* entity.
C16_Witness ==
    /\ pc = "write"
    /\ ~FeedOutcomes[1].ok
    /\ EntitiesOf(1) = {}
    /\ FeedKey(FEEDS[1]) \in attempted_keys
    /\ FeedOutcomes[NumFeeds].ok
    /\ EntitiesOf(NumFeeds) # {}
    /\ tries = 1

\* -------------------------------------------- the away team of a team match

\* C17: every match parse_team_feed emits has a non-empty away team name; a
\* finished match whose away team is neither in its record nor in the next
\* one is dropped.
C17_AwayNeverEmpty ==
    pc = "done" =>
        \A j \in 1..Len(result.matches) : result.matches[j].away # <<>>

\* ------------------------------------------------------ the rounds of a payload

\* The records of the totals round that are on the podium or of the home
\* federation, and whether one of them is finished.
EligibleTotals ==
    {i \in TotalsRecords :
        RowPosition(args.rows[i]) <= 3 \/ args.rows[i].fu \in SWE_COUNTRIES}
TotalsFinished == \E i \in TotalsRecords : args.rows[i].ab = <<"3">>

\* The records of heat rounds that give a time for an identifier, and the
\* time the first of them gives (<<>> when there is none).
HeatTimesOf(id) ==
    {h \in HeatRecords : RowIdent(args.rows[h]) = id /\ args.rows[h].time # <<>>}
FirstHeatTime(id) ==
    IF HeatTimesOf(id) = {} THEN <<>>
    ELSE args.rows[CHOOSE h \in HeatTimesOf(id) : \A g \in HeatTimesOf(id) : h <= g].time

\* The time the row of a totals record is to show.
ExpectedTime(i) ==
    IF args.rows[i].time # <<>> THEN args.rows[i].time
    ELSE FirstHeatTime(RowIdent(args.rows[i]))

\* The result row x shows the time t, or no time for t = <<>>.
ShowsTime(x, t) ==
    IF t = <<>> THEN "time" \notin DOMAIN x
    ELSE "time" \in DOMAIN x /\ x.time = t

\* The result for a payload of rounds, given what the run-level timestamp
\* is: an entity exactly when a totals record is finished, the timestamp is
\* not old and a totals record is eligible; its rows are the eligible totals
\* records, each with its own time or else the first heat time of its
\* identifier.
RoundsResult(ts) ==
    /\ result.kind = "entity" <=>
          (TotalsFinished /\ ~IsBelowCutoff(ts) /\ EligibleTotals # {})
    /\ result.kind = "entity" =>
          LET res == result.entity.results
          IN /\ result.entity.timestamp = ts
             /\ \A j \in 1..Len(res) : \E i \in EligibleTotals :
                   /\ ResultPair(res[j]) = <<_full_name(args.rows[i].ae, args.rows[i].wu),
                                             args.rows[i].fu>>
                   /\ res[j].pos = Some(RowPosition(args.rows[i]))
                   /\ ShowsTime(res[j], ExpectedTime(i))
             /\ \A i \in EligibleTotals : \E j \in 1..Len(res) :
                   ResultPair(res[j]) = <<_full_name(args.rows[i].ae, args.rows[i].wu),
                                          args.rows[i].fu>>

\* C18 as stated: a record of a round other than the totals round gives no
\* result row and no finished flag; it only records a fallback time under its
\* identifier, the first per identifier, which a totals row of that
\* identifier without a time of its own gets, wherever the heat round stands:
\* nothing else of the result depends on the heat records.
C18_HeatOnlyFallbackTime ==
    pc = "done" => RoundsResult(MaxStamp(StampsOf(TotalsRecords)))

\* C18 amended: as stated, and a record of a heat round also counts for the
\* run-level timestamp, which is the maximum over the records of all rounds.
C18_HeatTimeAndStamp ==
    pc = "done" => RoundsResult(MaxStamp(StampsOf(AthleteRecords)))

\* A heat round after the totals round: the row of Al gets the first of the
\* two heat times of Al, and the timestamp of the heat records.
C18_Witness ==
    /\ pc = "done"
    /\ args.rows = <<RowAl, HdrHeat, HeatAl, HeatAlLater>>
    /\ result.kind = "entity"
    /\ Len(result.entity.results) = 1
    /\ result.entity.results[1].time = <<"8">>
    /\ result.entity.timestamp = Some(1770000000)

\* ------------------------------------------------ parse_start_list on its own

\* scheduled, of another federation
RowGa ==
    [NoRow EXCEPT !.ae = <<"G", "a">>, !.fu = Norge, !.ab = <<"1">>, !.pos = <<"2">>]
\* of the home federation, no status and no bib
RowHu ==
    [NoRow EXCEPT !.ae = <<"H", "u">>, !.fu = Sverige]

StartRowPool == {HdrHeat, HdrTotalt, RowFy, RowGa, RowHu, RowBo}

InitStart ==
    /\ file = NoFile
    /\ clock = 0
    /\ call = NoCall
    /\ pc = "call"
    /\ args \in {[rows |-> r, entry |-> FEEDS[1]] : r \in SeqsUpTo(StartRowPool, MaxRows)}
    /\ result = NoEntity
    /\ all_matches = <<>>
    /\ attempted_keys = {}
    /\ idx = 0
    /\ data = <<>>
    /\ fetchlog = <<>>
    /\ tries = 0

\* parse_start_list on the payload made of the records.
ParseStartListCall ==
    /\ pc = "call"
    /\ result' = parse_start_list(PayloadText(args.rows), args.entry)
    /\ pc' = "done"
    /\ UNCHANGED <<file, clock, call, args>>
    /\ UNCHANGED scrapeVars

NextStart == ParseStartListCall

SpecStart == InitStart /\ [][NextStart]_vars

\* The n-th smallest element of a set of record numbers.
NthOf(S, n) == CHOOSE i \in S : Cardinality({k \in S : k <= i}) = n

\* C19: parse_start_list returns an entity exactly when a totals-round
\* athlete record has the scheduled status code; then the full list has one
\* entry per totals-round athlete record, in order, total is its length, and
\* the home list is the entries of the full list with a home-federation
\* country, in the same order.
C19_StartList ==
    pc = "done" =>
        /\ result.kind = "entity" <=> \E i \in TotalsRecords : args.rows[i].ab = <<"1">>
        /\ result.kind = "entity" =>
              LET e == result.entity
                  home == SelectSeq(e.athletes, LAMBDA a : a.country \in SWE_COUNTRIES)
              IN /\ e.total = Len(e.athletes)
                 /\ Len(e.athletes) = Cardinality(TotalsRecords)
                 /\ \A n \in 1..Len(e.athletes) :
                       /\ e.athletes[n].name = args.rows[NthOf(TotalsRecords, n)].ae
                       /\ e.athletes[n].country = args.rows[NthOf(TotalsRecords, n)].fu
                 /\ e.swe_athletes =
                       [n \in 1..Len(home) |-> [name |-> home[n].name, country |-> home[n].country]]

\* Three athletes, one scheduled: the list of three and the two of the home
\* federation in their order.
C19_Witness ==
    /\ pc = "done"
    /\ args.rows = <<RowHu, RowGa, RowFy>>
    /\ result.kind = "entity"
    /\ result.entity.total = 3
    /\ Len(result.entity.swe_athletes) = 2
    /\ result.entity.swe_athletes[1].name = <<"H", "u">>
    /\ result.entity.swe_athletes[2].name = <<"F", "y">>

\* ------------------------------------------------ the fallback of _full_name

\* The label with its diacritics restored, the empty label as it is.
RestoredLabel == IF LabelOf(args) = <<>> THEN <<>> ELSE _fix_diacritics(LabelOf(args))

IsText(s) == DOMAIN s = 1..Len(s)

\* C20 as stated: the result is the restored label when the label has no
\* initial, when the slug or the label is empty, and when there are more
\* initials than slug segments less one.
C20_FallbackOnTooManyInitials ==
    (/\ pc = "done"
     /\ \/ InitialCount = 0
        \/ SlugOf(args) = <<>>
        \/ LabelOf(args) = <<>>
        \/ InitialCount > SegmentCount - 1)
    => result = RestoredLabel

\* C20 amended: the result is the restored label when the label has no
\* initial, when the slug or the label is empty, and when the slug has fewer
\* than two segments; with two segments or more and more initials than
\* segments less one, the name is made of the segments all the same, all but
\* the first as given names; a text is returned in every case.
C20_Fallback ==
    pc = "done" =>
        /\ IsText(result)
        /\ (\/ InitialCount = 0
            \/ SlugOf(args) = <<>>
            \/ LabelOf(args) = <<>>
            \/ SegmentCount < 2) => result = RestoredLabel
        /\ (InitialCount > SegmentCount - 1 /\ SegmentCount >= 2) =>
              /\ GivenCount = SegmentCount - 1
              /\ result = IF GivenIsEmpty
                          THEN Join(SubSeq(Reordered, 2, SegmentCount), <<" ">>)
                          ELSE Join(Reordered, <<" ">>)

\* Two initials and a slug of one segment: the label, restored.
C20_Witness ==
    /\ pc = "done"
    /\ args.words = KlaeboLabel
    /\ args.segments = <<<<"k", "l", "a", "e", "b", "o">>>>
    /\ result = <<"K", "l", Auml, "b", "o", " ", "J", ".", " ", "H", ".">>

\* ------------------------------------------------- the keys of the file

\* No two entries of a list have the same derived key.
UniqueKeys(list) ==
    \A i, j \in 1..Len(list) : _match_key(list[i]) = _match_key(list[j]) => i = j

\* No result stands in a list with a start list of the same event.
NoResultWithStartList(list) ==
    \A i, j \in 1..Len(list) :
        (list[i].type = "individual" /\ list[j].type = "startlist")
            => ~(list[i].sport = list[j].sport /\ list[i].event = list[j].event)

\* C21: over the runs from a missing file, the entity list of the file holds
\* at most one entity per derived key, and never a result together with a
\* start list of the same event.
C21_PersistedKeysUnique ==
    /\ UniqueKeys(ExistingMatches(file))
    /\ NoResultWithStartList(ExistingMatches(file))

\* A run that found the start list of an event in the file and left the
\* result of that event in its place.
C21_Witness ==
    /\ pc = "done"
    /\ call.ret
    /\ \E s \in Range(Prev) :
          /\ s.type = "startlist"
          /\ s \notin Range(file.matches)
          /\ \E r \in Range(file.matches) :
                r.type = "individual" /\ r.sport = s.sport /\ r.event = s.event

\* ------------------------------- the loop over FEEDS on payloads of rows

\* Rows of the payload the feeds of a run return: finished, scheduled,
\* without a status, and with a position that is no number.
EntryRowPool == {RowBo, RowFy, RowHu, RowDi}

InitEntries ==
    /\ file = NoFile
    /\ clock = 1
    /\ call = NoCall
    /\ pc = "feed"
    /\ args \in {[rows |-> r] : r \in SeqsUpTo(EntryRowPool, MaxRows)}
    /\ result = <<>>
    /\ all_matches = <<>>
    /\ attempted_keys = {}
    /\ idx = 1
    /\ data = <<>>
    /\ fetchlog = <<>>
    /\ tries = 0

\* What fetch_feed returns in this run: "" or the payload of the rows.
EntryTexts == {<<>>, PayloadText(args.rows)}

\* Lines 485-488: the key is added and the feed is fetched.
EntryFetch ==
    /\ pc = "feed"
    /\ attempted_keys' = Attempt(attempted_keys, FEEDS[idx])
    /\ \E text \in EntryTexts :
          /\ data' = text
          /\ fetchlog' = IF text = <<>> THEN fetchlog
                         ELSE Append(fetchlog, [kind |-> "feed", idx |-> idx, ok |-> TRUE])
          /\ pc' = IF text = <<>> THEN "retry" ELSE "decode"
    /\ tries' = 1
    /\ UNCHANGED <<file, clock, call, args, result, all_matches, idx>>

\* Lines 489-496: the retry, and the continue after an empty second text.
EntryRetry ==
    /\ pc = "retry"
    /\ \E text \in EntryTexts :
          /\ data' = text
          /\ fetchlog' = Append(fetchlog, [kind |-> "feed", idx |-> idx, ok |-> text # <<>>])
          /\ IF text = <<>>
             THEN pc' = AfterFeed /\ idx' = idx + 1
             ELSE pc' = "decode" /\ idx' = idx
    /\ tries' = 2
    /\ UNCHANGED <<file, clock, call, args, result, all_matches, attempted_keys>>

\* Lines 498-512: the decoding of the payload.
EntryDecode ==
    /\ pc = "decode"
    /\ \E r \in {Decoded(data, FEEDS[idx])} :
          IF r.raised
          THEN pc' = "crashed" /\ UNCHANGED <<all_matches, idx>>
          ELSE /\ all_matches' = all_matches \o r.added
               /\ pc' = AfterFeed
               /\ idx' = idx + 1
    /\ UNCHANGED <<file, clock, call, args, result, attempted_keys, data, fetchlog, tries>>

NextEntries == EntryFetch \/ EntryRetry \/ EntryDecode

SpecEntries == InitEntries /\ [][NextEntries]_vars

\* What each decoder makes of the payload in hand for the entry in hand.
ResultDecoder == parse_individual_feed(data, FEEDS[idx])
StartDecoder == parse_start_list(data, FEEDS[idx])

\* The batch of one state: no entry has given more than one entity, and the
\* key of every result and start list is an attempted key.
OnePerEntry ==
    /\ \A i \in 1..NumFeeds : Cardinality(EntitiesOf(i)) <= 1
    /\ \A n \in 1..Len(all_matches) :
          all_matches[n].type # "team" => _match_key(all_matches[n]) \in attempted_keys

\* The steps on the batch: a fetch adds nothing; the decoding adds one entity
\* at most, the result when the result decoder returns one, a start list
\* only when the result decoder returned none.
BatchStep ==
    /\ pc \in {"feed", "retry"} => all_matches' = all_matches
    /\ pc = "decode" =>
          /\ Len(all_matches') <= Len(all_matches) + 1
          /\ SubSeq(all_matches', 1, Len(all_matches)) = all_matches
          /\ ResultDecoder.kind = "entity" =>
                all_matches' = Append(all_matches, ResultDecoder.entity)
          /\ (Len(all_matches') > Len(all_matches)
                /\ all_matches'[Len(all_matches')].type = "startlist") =>
                /\ ResultDecoder.kind = "none"
                /\ all_matches' = Append(all_matches, StartDecoder.entity)

\* C22: in a run of scrape_all each individual entry adds at most one entity
\* to the batch, a start list only when the result decoder returned no
\* entity for the payload, and the key of every result and start list of the
\* batch is in attempted_keys.
C22_OneEntityPerEntry == []OnePerEntry /\ [][BatchStep]_vars

\* A payload with a finished and a scheduled row, which both decoders accept:
\* every entry gave its result and nothing else.
C22_Witness ==
    /\ pc = "write"
    /\ args.rows = <<RowBo, RowFy>>
    /\ Len(all_matches) = NumFeeds
    /\ \A n \in 1..NumFeeds :
          /\ all_matches[n].type = "individual"
          /\ _match_key(all_matches[n]) = FeedKey(FEEDS[n])
          /\ FeedKey(FEEDS[n]) \in attempted_keys
    /\ parse_start_list(PayloadText(args.rows), FEEDS[1]).kind = "entity"

====
